---- MODULE Spec2Model ----
(***************************************************************************)
(* A model of otel-loadgen's delivery verifier: the sink-side message      *)
(* tracker (package msg_tracker) and the worker-side message-ID generator  *)
(* (package worker).                                                       *)
(*                                                                         *)
(* Representation choices:                                                 *)
(*  - a Go map is a TLA+ function whose DOMAIN is the set of keys;         *)
(*  - a []uint64 bitmap is a sequence of words, each word the set of the   *)
(*    bit positions (0..WordBits-1) that are 1;                            *)
(*  - time.Time is a natural number, 0 being the zero time (IsZero);       *)
(*  - Go's uint is arithmetic modulo UintModulus;                          *)
(*  - a Go panic ends the process: panicked becomes TRUE and nothing       *)
(*    happens afterwards.                                                  *)
(***************************************************************************)
EXTENDS Integers, Sequences, FiniteSets, TLC

\* ---------------------------------------------------------------- bounds

\* longest range length handed to the tracker
MaxLen == 2
\* latest timestamp carried by an announcement (0 is the zero time)
MaxTime == 1
\* duplicate acks accepted per range before the model stops acking it
MaxDup == 1
\* threads of the sink that call Tracker.Ack at the same time
NumThreads == 2
\* fibers a worker pool starts per worker type (cfg.NumWorkers)
PoolWorkers == 2
\* pushes one fiber makes before the model stops its ticker
MaxPushes == 1
\* spans one generator emits in the delivery runs
MaxSpans == 2
\* resources per batch and spans per resource of the traces worker
MaxPerBatch == 2
\* pushes of the traces worker's fiber
MaxBatches == 3
\* calls of a stat's Incr
MaxIncrs == 4
\* reports of a stat
MaxReports == 3
\* ranges one msgIdGenerator allocates in the model
MaxAllocs == 2
\* the size of every range a msgIdGenerator allocates
ALLOC_SIZE == 1000
\* the buffer of the control client's channel
CtrlChanCap == 100
\* width of Go's uint in the model (the program's is 64 bits wide)
UintBits == 16

UintModulus == 2 ^ UintBits

\* bits per bitmap word: the bitmap is a []uint64
WordBits == 64

ZeroTime == 0

\* the generator whose spans and announcements reach the tracker
GeneratorIDs == {"genA"}
\* a generator the tracker never hears of except in a truncation
StrangerIDs == {"genB"}
StartIDs == {1, 3}
\* the sink's threads that ack concurrently
Threads == 1 .. NumThreads
\* what the concurrent acks carry: one generator, one start ID
ConcLens == {1, 2}
ConcMsgIDs == {1, 2, 3}
\* range lengths a span's attributes may carry to Ack (the sink checks nothing)
RangeLens == 0 .. MaxLen
\* range lengths the control server lets through to AddRange and UpdateRange
AnnouncedLens == 1 .. MaxLen
MsgIDs == 1 .. (2 + MaxLen)
Times == 0 .. MaxTime
Cutoffs == 1 .. (MaxTime + 1)

\* ------------------------------------------------------------ the state

VARIABLES
  generators,  \* Tracker.generators: generator ID -> generatorTracker
  panicked,    \* TRUE once a Go panic has ended the process
  last,        \* the last tracker call: its name and its result
  acks,        \* history: the <<generator, start, msgID>> for which Ack returned true
  threads,     \* the sink's request threads: each one's place in Tracker.Ack
  idgen,       \* a worker's msgIdGenerator
  ctrlChan,    \* the control client's channel: the messages in its buffer
  calls,       \* history: the number of nextId calls that have returned
  returned,    \* history: the MsgID the last nextId call returned
  pool,        \* a worker pool (Workers): its fibers, generators and control client
  sink,        \* the sink's servers: the request handled last, what it led to
  traffic,     \* the spans generators have emitted and how often each reached the sink
  locks,       \* the tracker's mutexes and what each thread holds of them
  worker,      \* a traces worker with one fiber: its generator, batches and counters
  stat         \* one stat of the stats tracker and its reporter

trackerVars == <<generators, panicked, last, acks, threads>>
idgenVars == <<idgen, ctrlChan, calls, returned>>
fiberVars == <<worker, stat>>
restVars == <<sink, traffic, locks, worker, stat>>
vars == <<generators, panicked, last, acks, threads, idgen, ctrlChan, calls, returned, pool,
          sink, traffic, locks, worker, stat>>

EmptyMap == [k \in {} |-> 0]

\* a faulty variant of the map assignment: every entry is overwritten
Put_EveryKey(map, key, value) ==
  [k \in (DOMAIN map) \cup {key} |-> value]

Put(map, key, value) ==
  [k \in (DOMAIN map) \cup {key} |-> IF k = key THEN value ELSE map[k]]

\* ------------------------------------------------------- MessageRange

NewMessageRangePanics(rangeLen) == rangeLen = 0

NewMessageRange(startID, rangeLen) ==
  [StartID |-> startID,
   RangeLen |-> rangeLen,
   Timestamp |-> ZeroTime,
   AckedCount |-> 0,
   DuplicateCount |-> 0,
   bitmap |-> [i \in 1 .. ((rangeLen + (WordBits - 1)) \div WordBits) |-> {}]]

\* a faulty variant of contains: the range is closed at its upper end
contains_Closed(mr, msgID) ==
  msgID >= mr.StartID /\ msgID <= mr.StartID + mr.RangeLen

contains(mr, msgID) ==
  msgID >= mr.StartID /\ msgID < mr.StartID + mr.RangeLen

\* a faulty variant of MessageRangeAck: the bit is not tested before the counters are
\* updated, so every in-range ack counts as a fresh one
MessageRangeAck_CountsDuplicates(mr, msgID) ==
  IF ~contains(mr, msgID)
    THEN [mr |-> mr, Dup |-> FALSE, Acked |-> FALSE, success |-> FALSE, panic |-> FALSE]
    ELSE LET offset == msgID - mr.StartID
             idx == offset \div WordBits
             bit == offset % WordBits
         IN IF idx >= Len(mr.bitmap)
              THEN [mr |-> mr, Dup |-> FALSE, Acked |-> FALSE, success |-> FALSE,
                    panic |-> TRUE]
              ELSE [mr |-> [mr EXCEPT !.bitmap[idx + 1] = @ \cup {bit},
                                      !.AckedCount = (@ + 1) % UintModulus],
                    Dup |-> FALSE, Acked |-> TRUE, success |-> TRUE, panic |-> FALSE]

\* MessageRange.Ack: the range afterwards, the AckedResult, the success flag,
\* and whether the bitmap index was out of the slice's bounds (a panic).
MessageRangeAck(mr, msgID) ==
  IF ~contains(mr, msgID)
    THEN [mr |-> mr, Dup |-> FALSE, Acked |-> FALSE, success |-> FALSE, panic |-> FALSE]
    ELSE LET offset == msgID - mr.StartID
             idx == offset \div WordBits
             bit == offset % WordBits
         IN IF idx >= Len(mr.bitmap)
              THEN [mr |-> mr, Dup |-> FALSE, Acked |-> FALSE, success |-> FALSE,
                    panic |-> TRUE]
              ELSE LET wasAlreadyAcked == bit \in mr.bitmap[idx + 1]
                       marked == [mr EXCEPT !.bitmap[idx + 1] = @ \cup {bit}]
                   IN IF wasAlreadyAcked
                        THEN [mr |-> [marked EXCEPT !.DuplicateCount = (@ + 1) % UintModulus],
                              Dup |-> TRUE, Acked |-> FALSE, success |-> TRUE,
                              panic |-> FALSE]
                        ELSE [mr |-> [marked EXCEPT !.AckedCount = (@ + 1) % UintModulus],
                              Dup |-> FALSE, Acked |-> TRUE, success |-> TRUE,
                              panic |-> FALSE]

MessageRangeIsAckedPanics(mr, msgID) ==
  contains(mr, msgID) /\ ((msgID - mr.StartID) \div WordBits) >= Len(mr.bitmap)

MessageRangeIsAcked(mr, msgID) ==
  IF ~contains(mr, msgID)
    THEN FALSE
    ELSE LET offset == msgID - mr.StartID
             idx == offset \div WordBits
             bit == offset % WordBits
         IN idx < Len(mr.bitmap) /\ bit \in mr.bitmap[idx + 1]

TotalMessages(mr) == mr.RangeLen

TotalAckedCount(mr) == mr.AckedCount

UnackedCount(mr) == (TotalMessages(mr) - mr.AckedCount) % UintModulus

UpdateTimestamp(mr, timestamp) == [mr EXCEPT !.Timestamp = timestamp]

\* a faulty variant of OlderThan: the zero timestamp is not excluded
OlderThan_NoZeroCheck(mr, timestamp) == mr.Timestamp < timestamp

OlderThan(mr, timestamp) ==
  mr.Timestamp # ZeroTime /\ mr.Timestamp < timestamp

\* --------------------------------------------------- generatorTracker

newGeneratorTracker ==
  [totalAcked |-> 0, totalDuped |-> 0, ranges |-> EmptyMap]

findRangeExists(gt, startRangeID) == startRangeID \in DOMAIN gt.ranges

\* a faulty variant of addRange: the range is created without looking for one first
addRange_NoRecheck(gt, startID, rangeLen) ==
  [gt EXCEPT !.ranges = Put(@, startID, NewMessageRange(startID, rangeLen))]

\* addRange: the existing range is kept; NewMessageRange is reached (and may
\* panic) only when there is none.
addRangePanics(gt, startID, rangeLen) ==
  startID \notin DOMAIN gt.ranges /\ NewMessageRangePanics(rangeLen)

addRange(gt, startID, rangeLen) ==
  IF startID \in DOMAIN gt.ranges
    THEN gt
    ELSE [gt EXCEPT !.ranges = Put(@, startID, NewMessageRange(startID, rangeLen))]

\* a faulty variant of addRangeWithTimestamp: an announcement replaces the range it finds
addRangeWithTimestamp_Replaces(gt, startID, rangeLen, timestamp) ==
  [gt EXCEPT !.ranges =
     Put(@, startID,
         [NewMessageRange(startID, rangeLen) EXCEPT !.Timestamp = timestamp])]

addRangeWithTimestamp(gt, startID, rangeLen, timestamp) ==
  IF startID \in DOMAIN gt.ranges
    THEN [gt EXCEPT !.ranges[startID] = UpdateTimestamp(@, timestamp)]
    ELSE [gt EXCEPT !.ranges =
            Put(@, startID,
                [NewMessageRange(startID, rangeLen) EXCEPT !.Timestamp = timestamp])]

RECURSIVE SumUint(_, _)
\* the uint sum of f[k] over the keys ks, as a Go loop "total += ..." leaves it
SumUint(f, ks) ==
  IF ks = {} THEN 0
  ELSE LET k == CHOOSE x \in ks : TRUE
       IN (f[k] + SumUint(f, ks \ {k})) % UintModulus

\* unackedOlderThan: the loop visits every range once; total and oldestTime
\* do not depend on the order of the visits.
unackedOlderThan(gt, timestamp) ==
  LET older == {s \in DOMAIN gt.ranges : OlderThan(gt.ranges[s], timestamp)}
      lagging == {s \in older : UnackedCount(gt.ranges[s]) > 0}
      stamps == {gt.ranges[s].Timestamp : s \in lagging}
  IN [total |-> SumUint([s \in older |-> UnackedCount(gt.ranges[s])], older),
      oldestTime |-> IF stamps = {} THEN ZeroTime
                     ELSE CHOOSE t \in stamps : \A u \in stamps : t <= u]

ackedCount(gt) ==
  SumUint([s \in DOMAIN gt.ranges |-> TotalAckedCount(gt.ranges[s])], DOMAIN gt.ranges)

\* ------------------------------------------------------------- Tracker

\* a faulty variant of getOrCreateGenerator: the map is not looked up again under the
\* write lock, so a generatorTracker another thread has created is replaced
getOrCreateGenerator_NoRecheck(gens, generatorID) ==
  Put(gens, generatorID, newGeneratorTracker)

\* the write-locked half of the lookup that opens Ack and AddRange, entered
\* when the read-locked probe found no generator: the map is looked up again
\* and a generatorTracker is created only if it still has none
getOrCreateGenerator(gens, generatorID) ==
  IF generatorID \in DOMAIN gens THEN gens
  ELSE Put(gens, generatorID, newGeneratorTracker)

\* a faulty variant of addTotals: a duplicate is added to totalAcked as well
addTotals_DupAsAcked(gt, res) ==
  IF ~res.success THEN gt
  ELSE [gt EXCEPT !.totalAcked = (@ + 1) % UintModulus]

\* the cumulative counters after r.Ack has returned res
addTotals(gt, res) ==
  IF ~res.success THEN gt
  ELSE IF res.Dup THEN [gt EXCEPT !.totalDuped = (@ + 1) % UintModulus]
  ELSE IF res.Acked THEN [gt EXCEPT !.totalAcked = (@ + 1) % UintModulus]
  ELSE gt

\* a faulty variant of setRangeLen: the range is rebuilt at the new length, which drops
\* its bitmap and counters
setRangeLen_Rebuilds(mr, rangeLen) ==
  [NewMessageRange(mr.StartID, rangeLen) EXCEPT !.Timestamp = mr.Timestamp]

\* UpdateRange's effect on the range it found
setRangeLen(mr, rangeLen) == [mr EXCEPT !.RangeLen = rangeLen]

IsAcked(gens, generatorID, startRangeID, msgID) ==
  /\ generatorID \in DOMAIN gens
  /\ startRangeID \in DOMAIN gens[generatorID].ranges
  /\ MessageRangeIsAcked(gens[generatorID].ranges[startRangeID], msgID)

AckedCount(gens) ==
  LET counted == {g \in DOMAIN gens : ackedCount(gens[g]) > 0}
  IN [g \in counted |-> ackedCount(gens[g])]

GeneratorReport(gens, timestamp) ==
  [g \in DOMAIN gens |->
     LET u == unackedOlderThan(gens[g], timestamp)
     IN [Unacked |-> u.total,
         TotalAcked |-> gens[g].totalAcked,
         TotalDuped |-> gens[g].totalDuped,
         OldestUnackedAge |-> u.oldestTime]]

\* ------------------------------------------ tracker calls, one at a time

HasRange(gens, generatorID, startRangeID) ==
  /\ generatorID \in DOMAIN gens
  /\ startRangeID \in DOMAIN gens[generatorID].ranges

\* what the variable last keeps of a call: its name, what it returned, the
\* length the range it names had when the call began (0: there was no such
\* range), and for GeneratorReport the cutoff and the report
Call(op, ret, old, timestamp, report) ==
  [op |-> op, ret |-> ret, old |-> old, timestamp |-> timestamp, report |-> report]

OldLen(generatorID, startRangeID) ==
  IF HasRange(generators, generatorID, startRangeID)
    THEN generators[generatorID].ranges[startRangeID].RangeLen
    ELSE 0

TrackerAck(generatorID, startRangeID, rangeLen, msgID) ==
  LET gens1 == IF generatorID \in DOMAIN generators THEN generators
               ELSE getOrCreateGenerator(generators, generatorID)
      gt == gens1[generatorID]
      call(ret) == Call("Ack", ret, OldLen(generatorID, startRangeID), ZeroTime, EmptyMap)
  IN /\ ~panicked
     /\ UNCHANGED <<threads, idgen, ctrlChan, calls, returned, pool, restVars>>
     /\ IF ~findRangeExists(gt, startRangeID) /\ addRangePanics(gt, startRangeID, rangeLen)
          THEN /\ generators' = gens1
               /\ panicked' = TRUE
               /\ last' = call(FALSE)
               /\ acks' = acks
          ELSE LET gt2 == IF findRangeExists(gt, startRangeID) THEN gt
                          ELSE addRange(gt, startRangeID, rangeLen)
                   res == MessageRangeAck(gt2.ranges[startRangeID], msgID)
                   gt3 == [gt2 EXCEPT !.ranges[startRangeID] = res.mr]
               IN /\ res.mr.DuplicateCount <= MaxDup
                  /\ IF res.panic
                       THEN /\ generators' = [gens1 EXCEPT ![generatorID] = gt2]
                            /\ panicked' = TRUE
                            /\ last' = call(FALSE)
                            /\ acks' = acks
                       ELSE /\ generators' =
                                 [gens1 EXCEPT ![generatorID] = addTotals(gt3, res)]
                            /\ panicked' = FALSE
                            /\ last' = call(res.success)
                            /\ acks' = IF res.success
                                         THEN acks \cup {<<generatorID, startRangeID, msgID>>}
                                         ELSE acks

TrackerAddRange(generatorID, startRangeID, rangeLen, timestamp) ==
  LET gens1 == IF generatorID \in DOMAIN generators THEN generators
               ELSE getOrCreateGenerator(generators, generatorID)
      gt == gens1[generatorID]
  IN /\ ~panicked
     /\ UNCHANGED <<threads, idgen, ctrlChan, calls, returned, pool, restVars>>
     /\ last' = Call("AddRange", FALSE, OldLen(generatorID, startRangeID), ZeroTime,
                     EmptyMap)
     /\ acks' = acks
     /\ IF addRangePanics(gt, startRangeID, rangeLen)
          THEN /\ generators' = gens1
               /\ panicked' = TRUE
          ELSE /\ generators' =
                    [gens1 EXCEPT ![generatorID] =
                       addRangeWithTimestamp(gt, startRangeID, rangeLen, timestamp)]
               /\ panicked' = FALSE

\* a faulty variant of UpdateRange: a range it does not find is created
TrackerUpdateRange_Creates(generatorID, startRangeID, rangeLen) ==
  LET gens1 == getOrCreateGenerator(generators, generatorID)
      gt == addRange(gens1[generatorID], startRangeID, rangeLen)
  IN /\ ~panicked
     /\ UNCHANGED <<threads, idgen, ctrlChan, calls, returned, pool, restVars>>
     /\ last' = Call("UpdateRange", FALSE, OldLen(generatorID, startRangeID), ZeroTime,
                     EmptyMap)
     /\ panicked' = FALSE
     /\ acks' = acks
     /\ generators' = [gens1 EXCEPT ![generatorID] =
                         [gt EXCEPT !.ranges[startRangeID] = setRangeLen(@, rangeLen)]]

TrackerUpdateRange(generatorID, startRangeID, rangeLen) ==
  /\ ~panicked
  /\ UNCHANGED <<threads, idgen, ctrlChan, calls, returned, pool, restVars>>
  /\ last' = Call("UpdateRange", FALSE, OldLen(generatorID, startRangeID), ZeroTime,
                  EmptyMap)
  /\ panicked' = FALSE
  /\ acks' = acks
  /\ IF generatorID \notin DOMAIN generators
       THEN generators' = generators
       ELSE IF ~findRangeExists(generators[generatorID], startRangeID)
         THEN generators' = generators
         ELSE generators' =
                [generators EXCEPT ![generatorID].ranges[startRangeID] =
                   setRangeLen(@, rangeLen)]

TrackerGeneratorReport(timestamp) ==
  /\ ~panicked
  /\ UNCHANGED <<threads, idgen, ctrlChan, calls, returned, pool, restVars>>
  /\ last' = Call("GeneratorReport", FALSE, 0, timestamp,
                  GeneratorReport(generators, timestamp))
  /\ UNCHANGED <<generators, panicked, acks>>

\* ------------------------------------------------------------ msgIdGenerator
\* currRange is << >> for the nil pointer and <<r>> otherwise; withChan is
\* whether ctrlChan is non-nil (a worker without a control client passes nil).
\* The uint64 arithmetic is not reduced: the bound on allocations keeps every
\* value far below 2^64.

NewMsgIdGenerator(generatorId, withChan) ==
  [generatorId |-> generatorId, nextStartId |-> 1, withChan |-> withChan,
   currRange |-> << >>, stopped |-> FALSE, panicked |-> FALSE]

isFull(r) == r.used >= r.len

\* a faulty variant of nextRange: the next start ID is not advanced
nextRange_SameStart(g, len, now) ==
  LET mid == [startId |-> g.nextStartId, len |-> len, used |-> 0, timestamp |-> now]
  IN [g |-> g,
      mid |-> mid,
      sent |-> IF g.withChan
                 THEN << [Type |-> "new", GeneratorID |-> g.generatorId,
                          StartID |-> mid.startId, RangeLen |-> mid.len,
                          Timestamp |-> mid.timestamp] >>
                 ELSE << >>]

\* a faulty variant of nextRange: the range is not announced
nextRange_Unannounced(g, len, now) ==
  LET mid == [startId |-> g.nextStartId, len |-> len, used |-> 0, timestamp |-> now]
  IN [g |-> [g EXCEPT !.nextStartId = @ + len],
      mid |-> mid,
      sent |-> << >>]

\* nextRange: the new range starts at nextStartId, which moves past it, and the
\* range is announced on the channel when there is one
nextRange(g, len, now) ==
  LET mid == [startId |-> g.nextStartId, len |-> len, used |-> 0, timestamp |-> now]
  IN [g |-> [g EXCEPT !.nextStartId = @ + len],
      mid |-> mid,
      sent |-> IF g.withChan
                 THEN << [Type |-> "new", GeneratorID |-> g.generatorId,
                          StartID |-> mid.startId, RangeLen |-> mid.len,
                          Timestamp |-> mid.timestamp] >>
                 ELSE << >>]

\* msgIdRange.nextId: panics on a full range, else hands out startId + used
msgIdRangeNextIdPanics(r) == isFull(r)

\* a faulty variant of msgIdRange.nextId: used is added after it was incremented
msgIdRangeNextId_CountsFirst(r) ==
  [r |-> [r EXCEPT !.used = @ + 1],
   id |-> [StartID |-> r.startId, Len |-> r.len, ID |-> r.startId + r.used + 1]]

\* a faulty variant of msgIdRange.nextId: used is not incremented
msgIdRangeNextId_Unused(r) ==
  [r |-> r,
   id |-> [StartID |-> r.startId, Len |-> r.len, ID |-> r.startId + r.used]]

msgIdRangeNextId(r) ==
  [r |-> [r EXCEPT !.used = @ + 1],
   id |-> [StartID |-> r.startId, Len |-> r.len, ID |-> r.startId + r.used]]

\* a faulty variant of Stop's sends: the update is sent for a used-up range too
stopSends_AlsoWhenFull(g) ==
  IF g.withChan /\ g.currRange # << >>
    THEN << [Type |-> "update", GeneratorID |-> g.generatorId,
             StartID |-> g.currRange[1].startId, RangeLen |-> g.currRange[1].used,
             Timestamp |-> g.currRange[1].timestamp] >>
    ELSE << >>

\* a faulty variant of Stop's sends: the update carries the range's full length
stopSends_WholeRange(g) ==
  IF g.withChan /\ g.currRange # << >> /\ g.currRange[1].used < g.currRange[1].len
    THEN << [Type |-> "update", GeneratorID |-> g.generatorId,
             StartID |-> g.currRange[1].startId, RangeLen |-> g.currRange[1].len,
             Timestamp |-> g.currRange[1].timestamp] >>
    ELSE << >>

\* what Stop sends: nothing without a channel or a current range, and else
\* one update for the current range when it was not used up
stopSends(g) ==
  IF g.withChan /\ g.currRange # << >> /\ g.currRange[1].used < g.currRange[1].len
    THEN << [Type |-> "update", GeneratorID |-> g.generatorId,
             StartID |-> g.currRange[1].startId, RangeLen |-> g.currRange[1].used,
             Timestamp |-> g.currRange[1].timestamp] >>
    ELSE << >>

\* whether nextId has to allocate
needsRange(g) == g.currRange = << >> \/ isFull(g.currRange[1])

\* ---------------------------------------------------------------- Workers
\* The pool holds one worker type (the traces worker); its fibers are numbered
\* 1 .. PoolWorkers and fiber i owns generator PoolGenIDs[i].  A channel is
\* "nil" before it is made, then "open", then "closed"; a goroutine is "none"
\* before it is started, then "running", then "exited".  posted is the history
\* of the requests the control client has made, sentOnClosed records a send on
\* the closed control channel (a panic of the worker process, pc "panicked").
Fibers == 1 .. PoolWorkers
PoolGenIDs == <<"genA", "genB", "genC", "genD">>

\* Workers after New and Add: nothing runs; the control client exists when an
\* endpoint is configured, and the worker's stopChan was made by its Init
NewWorkers(withClient) ==
  [pc |-> "idle",
   withClient |-> withClient,
   statsStop |-> "nil",
   stats |-> "none",
   stopChan |-> "open",
   fibers |-> [f \in Fibers |-> "none"],
   pushes |-> [f \in Fibers |-> 0],
   gens |-> << >>,
   stopCh |-> "open",
   msgChClosed |-> FALSE,
   client |-> "none",
   posted |-> << >>,
   sentOnClosed |-> FALSE]

\* the sink before its first request
NoRequest == [op |-> "none", request |-> << >>, response |-> 0, acked |-> << >>]

\* before any generator of the delivery runs has emitted
NoTraffic == [gens |-> EmptyMap, spans |-> EmptyMap]

\* no thread is inside a tracker call, holds a mutex or waits for one
NoLocks ==
  [pc |-> [t \in Threads |-> "idle"],
   held |-> [t \in Threads |-> {}],
   pending |-> [t \in Threads |-> "none"],
   msgID |-> [t \in Threads |-> 0]]

\* no traces worker has been made
NoWorker == [pc |-> "none"]

\* no stat has been made
NoStat == [pc |-> "none"]

\* a thread that has not called yet
Idle == [pc |-> "idle", generatorID |-> "", startRangeID |-> 0, rangeLen |-> 0,
         msgID |-> 0, res |-> FALSE, ret |-> FALSE]

\* a worker's generator as Workers.Start constructs it, with the control
\* client's channel or with nil
InitIdGen(withChan) ==
  /\ idgen = NewMsgIdGenerator("genA", withChan)
  /\ ctrlChan = << >>
  /\ calls = 0
  /\ returned = [StartID |-> 0, Len |-> 0, ID |-> 0]

InitTracker ==
  /\ generators = EmptyMap
  /\ panicked = FALSE
  /\ last = Call("none", FALSE, 0, ZeroTime, EmptyMap)
  /\ acks = {}
  /\ threads = [t \in Threads |-> Idle]

\* the sink has handled no request, no generator has emitted a span, every
\* mutex is free, and neither the traces worker nor the stat has been made
InitRest ==
  /\ sink = NoRequest
  /\ traffic = NoTraffic
  /\ locks = NoLocks
  /\ worker = NoWorker
  /\ stat = NoStat

Init == InitTracker /\ InitIdGen(TRUE) /\ pool = NewWorkers(TRUE) /\ InitRest

\* the worker may run with or without a control client
InitAnyChan ==
  /\ InitTracker
  /\ \E withChan \in BOOLEAN : InitIdGen(withChan)
  /\ pool = NewWorkers(TRUE)
  /\ InitRest

\* Ack and AddRange read their rangeLen argument only when the range is new
\* (addRange and addRangeWithTimestamp return the one they find), so for a
\* known range one length stands for all.
LensFor(generatorID, startRangeID, lens) ==
  IF HasRange(generators, generatorID, startRangeID) THEN {MaxLen} ELSE lens

Next ==
  \/ \E g \in GeneratorIDs, s \in StartIDs, m \in MsgIDs :
       \E l \in LensFor(g, s, RangeLens) : TrackerAck(g, s, l, m)
  \/ \E g \in GeneratorIDs, s \in StartIDs, t \in Times :
       \E l \in LensFor(g, s, AnnouncedLens) : TrackerAddRange(g, s, l, t)
  \/ \E g \in GeneratorIDs \cup StrangerIDs, s \in StartIDs, l \in AnnouncedLens :
       TrackerUpdateRange(g, s, l)
  \/ \E t \in Cutoffs : TrackerGeneratorReport(t)

Spec == Init /\ [][Next]_vars

\* ------------------------------------- Tracker.Ack, one lock region at a time
\* Each step below is one region of Tracker.Ack that runs under a lock (or is
\* one atomic add), so the steps of different threads interleave exactly where
\* the locks allow.  A thread's gt and r are the map entries of its generator
\* and start ID: the code never replaces or deletes an entry.

\* lines 3220-3222: the read-locked probe of t.generators
AckProbe(t, generatorID, startRangeID, rangeLen, msgID) ==
  /\ ~panicked
  /\ UNCHANGED <<idgenVars, pool, restVars>>
  /\ threads[t].pc = "idle"
  /\ threads' = [threads EXCEPT ![t] =
       [pc |-> IF generatorID \in DOMAIN generators THEN "findRange" ELSE "createGen",
        generatorID |-> generatorID, startRangeID |-> startRangeID,
        rangeLen |-> rangeLen, msgID |-> msgID, res |-> FALSE, ret |-> FALSE]]
  /\ UNCHANGED <<generators, panicked, last, acks>>

\* lines 3226-3233: the write-locked double check
AckCreateGen(t) ==
  /\ ~panicked
  /\ UNCHANGED <<idgenVars, pool, restVars>>
  /\ threads[t].pc = "createGen"
  /\ generators' = getOrCreateGenerator(generators, threads[t].generatorID)
  /\ threads' = [threads EXCEPT ![t].pc = "findRange"]
  /\ UNCHANGED <<panicked, last, acks>>

\* lines 3237-3250: the read-locked lookup of the range
AckFindRange(t) ==
  /\ ~panicked
  /\ UNCHANGED <<idgenVars, pool, restVars>>
  /\ threads[t].pc = "findRange"
  /\ threads' = [threads EXCEPT ![t].pc =
       IF findRangeExists(generators[threads[t].generatorID], threads[t].startRangeID)
         THEN "ackRange" ELSE "addRange"]
  /\ UNCHANGED <<generators, panicked, last, acks>>

\* lines 3245-3247: addRange under the generator's write lock
AckAddRange(t) ==
  LET th == threads[t]
      gt == generators[th.generatorID]
  IN /\ ~panicked
     /\ UNCHANGED <<idgenVars, pool, restVars>>
     /\ th.pc = "addRange"
     /\ IF addRangePanics(gt, th.startRangeID, th.rangeLen)
          THEN /\ panicked' = TRUE
               /\ UNCHANGED <<generators, threads>>
          ELSE /\ generators' = [generators EXCEPT ![th.generatorID] =
                                   addRange(gt, th.startRangeID, th.rangeLen)]
               /\ threads' = [threads EXCEPT ![t].pc = "ackRange"]
               /\ panicked' = FALSE
     /\ UNCHANGED <<last, acks>>

\* line 3253: r.Ack(msgID) under the range's write lock
AckRange(t) ==
  LET th == threads[t]
      res == MessageRangeAck(generators[th.generatorID].ranges[th.startRangeID], th.msgID)
  IN /\ ~panicked
     /\ UNCHANGED <<idgenVars, pool, restVars>>
     /\ th.pc = "ackRange"
     /\ IF res.panic
          THEN /\ panicked' = TRUE
               /\ UNCHANGED <<generators, threads, acks>>
          ELSE /\ generators' =
                    [generators EXCEPT ![th.generatorID].ranges[th.startRangeID] = res.mr]
               /\ threads' = [threads EXCEPT ![t].pc = "totals",
                                             ![t].res = [res EXCEPT !.mr = 0]]
               /\ acks' = IF res.success
                            THEN acks \cup {<<th.generatorID, th.startRangeID, th.msgID>>}
                            ELSE acks
               /\ panicked' = FALSE
     /\ UNCHANGED last

\* lines 3254-3262: the atomic add to the cumulative counter, and the return
AckTotals(t) ==
  LET th == threads[t]
  IN /\ ~panicked
     /\ UNCHANGED <<idgenVars, pool, restVars>>
     /\ th.pc = "totals"
     /\ generators' = [generators EXCEPT ![th.generatorID] = addTotals(@, th.res)]
     /\ threads' = [threads EXCEPT ![t].pc = "done", ![t].ret = th.res.success,
                                   ![t].res = FALSE]
     /\ UNCHANGED <<panicked, last, acks>>

ConcStartID == CHOOSE s \in StartIDs : \A u \in StartIDs : s <= u

NextConc ==
  \/ \E t \in Threads, g \in GeneratorIDs, l \in ConcLens, m \in ConcMsgIDs :
       AckProbe(t, g, ConcStartID, l, m)
  \/ \E t \in Threads : AckCreateGen(t)
  \/ \E t \in Threads : AckFindRange(t)
  \/ \E t \in Threads : AckAddRange(t)
  \/ \E t \in Threads : AckRange(t)
  \/ \E t \in Threads : AckTotals(t)

SpecConc == Init /\ [][NextConc]_vars

\* ---------------------------------------------- ranges that outgrow a word
\* Announcements, truncations and acks of one range whose length is at most
\* one bitmap word or just beyond it.
GrowLens == {1, WordBits + 1}
GrowMsgIDs == {ConcStartID, ConcStartID + WordBits}

NextGrow ==
  \/ \E g \in GeneratorIDs, m \in GrowMsgIDs :
       \E l \in LensFor(g, ConcStartID, GrowLens) : TrackerAck(g, ConcStartID, l, m)
  \/ \E g \in GeneratorIDs, t \in Times :
       \E l \in LensFor(g, ConcStartID, GrowLens) : TrackerAddRange(g, ConcStartID, l, t)
  \/ \E g \in GeneratorIDs, l \in GrowLens : TrackerUpdateRange(g, ConcStartID, l)

SpecGrow == Init /\ [][NextGrow]_vars

\* ------------------------------------------------- the control server
\* a request body that is no JSON of a ControlMessage
MalformedBody == [Malformed |-> TRUE]

\* whether json.Decode accepts the body
decodes(body) == "Malformed" \notin DOMAIN body

\* a faulty variant of the handler: a PUT is served like a POST
handleMessageRange_PutAnnounces(gens, method, body) ==
  IF method \notin {"POST", "PUT"}
    THEN [gens |-> gens, status |-> 405]
    ELSE IF ~decodes(body)
      THEN [gens |-> gens, status |-> 400]
      ELSE IF body.GeneratorID = "" \/ body.RangeLen = 0
        THEN [gens |-> gens, status |-> 400]
        ELSE [status |-> 200,
              gens |->
                LET gens1 == IF body.GeneratorID \in DOMAIN gens THEN gens
                             ELSE getOrCreateGenerator(gens, body.GeneratorID)
                IN [gens1 EXCEPT ![body.GeneratorID] =
                      addRangeWithTimestamp(@, body.StartID, body.RangeLen,
                                            body.Timestamp)]]

\* a faulty variant of the handler: every method is served like a POST
handleMessageRange_AnyMethod(gens, method, body) ==
  handleMessageRange_PutAnnounces(gens, "POST", body)

\* the control server's handler: the tracker's map afterwards and the status
\* of the answer.  Only POST and PUT are served; a body that does not decode,
\* an empty generator_id and range_len 0 are refused; POST announces
\* (AddRange), PUT updates (UpdateRange)
handleMessageRange(gens, method, body) ==
  IF method \notin {"POST", "PUT"}
    THEN [gens |-> gens, status |-> 405]
    ELSE IF ~decodes(body)
      THEN [gens |-> gens, status |-> 400]
      ELSE IF body.GeneratorID = "" \/ body.RangeLen = 0
        THEN [gens |-> gens, status |-> 400]
        ELSE [status |-> 200,
              gens |->
                IF method = "POST"
                  THEN LET gens1 == IF body.GeneratorID \in DOMAIN gens THEN gens
                                    ELSE getOrCreateGenerator(gens, body.GeneratorID)
                       IN [gens1 EXCEPT ![body.GeneratorID] =
                             addRangeWithTimestamp(@, body.StartID, body.RangeLen,
                                                   body.Timestamp)]
                  ELSE IF ~HasRange(gens, body.GeneratorID, body.StartID)
                    THEN gens
                    ELSE [gens EXCEPT ![body.GeneratorID].ranges[body.StartID] =
                            setRangeLen(@, body.RangeLen)]]

\* the request the control client makes for a message: New is POSTed, Update
\* is PUT
methodOf(msg) == IF msg.Type = "new" THEN "POST" ELSE "PUT"

\* the requests that reach /api/message_range: any method, and a body that is
\* malformed or the JSON of a ControlMessage
Methods == {"GET", "POST", "PUT", "DELETE"}
Bodies ==
  {MalformedBody} \cup
  [GeneratorID : {""} \cup GeneratorIDs, StartID : StartIDs, RangeLen : RangeLens,
   Timestamp : Times]

\* one request to /api/message_range, from its arrival to the answer
ServeMessageRange(method, body) ==
  LET answer == handleMessageRange(generators, method, body)
  IN /\ ~panicked
     /\ generators' = answer.gens
     /\ sink' = [op |-> "handleMessageRange", request |-> <<method, body>>,
                 response |-> answer.status, acked |-> << >>]
     /\ UNCHANGED <<panicked, last, acks, threads, idgenVars, pool, traffic, locks, fiberVars>>

NextServer == \E method \in Methods, body \in Bodies : ServeMessageRange(method, body)

SpecServer == Init /\ [][NextServer]_vars

\* the time every range of the workers' generators is allocated at
PoolNow == CHOOSE t \in Times : t # ZeroTime

\* the cutoff of the report: later than every range's timestamp
PoolCutoff == MaxTime + 1

\* ------------------------------------------- msgIdGenerator, step by step
\* AddElementAttrs / nextId: allocate when there is no range or it is full (a
\* send that blocks on a full channel keeps the call from happening), then take
\* the next ID of the current range
IdGenNextId(now) ==
  LET nr == nextRange(idgen, ALLOC_SIZE, now)
      g1 == IF needsRange(idgen) THEN [nr.g EXCEPT !.currRange = <<nr.mid>>] ELSE idgen
      sent == IF needsRange(idgen) THEN nr.sent ELSE << >>
      r == g1.currRange[1]
      out == msgIdRangeNextId(r)
  IN /\ ~idgen.stopped /\ ~idgen.panicked
     /\ needsRange(idgen) => idgen.nextStartId <= (MaxAllocs - 1) * ALLOC_SIZE + 1
     /\ Len(ctrlChan) + Len(sent) <= CtrlChanCap
     /\ ctrlChan' = ctrlChan \o sent
     /\ IF msgIdRangeNextIdPanics(r)
          THEN /\ idgen' = [g1 EXCEPT !.panicked = TRUE]
               /\ UNCHANGED <<calls, returned>>
          ELSE /\ idgen' = [g1 EXCEPT !.currRange = <<out.r>>]
               /\ calls' = calls + 1
               /\ returned' = out.id
     /\ UNCHANGED <<trackerVars, pool, restVars>>

\* Stop: with a channel and a range that was not used up, the range is
\* shortened to what was used
IdGenStop ==
  LET sent == stopSends(idgen)
  IN /\ ~idgen.stopped /\ ~idgen.panicked
     /\ Len(ctrlChan) + Len(sent) <= CtrlChanCap
     /\ ctrlChan' = ctrlChan \o sent
     /\ idgen' = [idgen EXCEPT !.stopped = TRUE]
     /\ UNCHANGED <<calls, returned>>
     /\ UNCHANGED <<trackerVars, pool, restVars>>

\* a faulty variant of the channel receive: the newest message is taken
chanReceive_Newest(chan) ==
  [msg |-> chan[Len(chan)], rest |-> SubSeq(chan, 1, Len(chan) - 1)]

\* a receive from the client's buffered channel: the oldest message
chanReceive(chan) == [msg |-> Head(chan), rest |-> Tail(chan)]

\* the control client takes the oldest message off its channel and sends it
\* to the control server, which handles it
CtrlReceive ==
  /\ ctrlChan # << >>
  /\ ctrlChan' = chanReceive(ctrlChan).rest
  /\ generators' =
       handleMessageRange(generators, methodOf(chanReceive(ctrlChan).msg),
                          chanReceive(ctrlChan).msg).gens
  /\ UNCHANGED <<idgen, calls, returned>>
  /\ UNCHANGED <<panicked, last, acks, threads, pool, restVars>>

NextIdGen ==
  \/ \E now \in Times \ {ZeroTime} : IdGenNextId(now)
  \/ IdGenStop
  \/ CtrlReceive

SpecIdGen == InitAnyChan /\ [][NextIdGen]_vars

\* ------------------------------------------------ a control channel in use
\* The control client's channel is shared by the generators of all fibers.
\* Here another fiber's generator has announced so many ranges, none of them
\* forwarded yet, that the channel has room for one more message.
OtherGenID == "genB"

Announcement(generatorID, i) ==
  [Type |-> "new", GeneratorID |-> generatorID, StartID |-> 1 + (i - 1) * ALLOC_SIZE,
   RangeLen |-> ALLOC_SIZE, Timestamp |-> PoolNow]

InitBusyChan ==
  /\ InitTracker
  /\ InitRest
  /\ pool = NewWorkers(TRUE)
  /\ idgen = NewMsgIdGenerator("genA", TRUE)
  /\ calls = 0
  /\ returned = [StartID |-> 0, Len |-> 0, ID |-> 0]
  /\ ctrlChan = [i \in 1 .. (CtrlChanCap - 1) |-> Announcement(OtherGenID, i)]

NextBusyChan ==
  \/ IdGenNextId(PoolNow)
  \/ CtrlReceive

SpecBusyChan == InitBusyChan /\ [][NextBusyChan]_vars

\* -------------------------------------------- acks of two generators' spans
\* The sink acks spans of two generators whose ranges carry the same start
\* IDs and lengths.
TwoGenLens == {2}
TwoGenMsgIDs == {1, 2, 3}

NextTwoGen ==
  \E g \in GeneratorIDs \cup StrangerIDs, s \in StartIDs, m \in TwoGenMsgIDs :
    \E l \in LensFor(g, s, TwoGenLens) : TrackerAck(g, s, l, m)

SpecTwoGen == Init /\ [][NextTwoGen]_vars

\* ------------------------------------------------- the pool, step by step
\* The worker process (pool, fibers, generators, control client) and the sink
\* process (OTLP receiver, control server, tracker) side by side.  A push is
\* one HTTP request: the sink acks its span while it handles the request.  The
\* network is healthy: every control request the client makes reaches the
\* control server.

\* Tracker.Ack as one call: the tracker's map afterwards, what the call
\* returned and whether it panicked
AckOutcome(gens, generatorID, startRangeID, rangeLen, msgID) ==
  LET gens1 == IF generatorID \in DOMAIN gens THEN gens
               ELSE getOrCreateGenerator(gens, generatorID)
      gt == gens1[generatorID]
  IN IF ~findRangeExists(gt, startRangeID) /\ addRangePanics(gt, startRangeID, rangeLen)
       THEN [gens |-> gens1, ret |-> FALSE, panic |-> TRUE]
       ELSE LET gt2 == IF findRangeExists(gt, startRangeID) THEN gt
                       ELSE addRange(gt, startRangeID, rangeLen)
                res == MessageRangeAck(gt2.ranges[startRangeID], msgID)
                gt3 == [gt2 EXCEPT !.ranges[startRangeID] = res.mr]
            IN IF res.panic
                 THEN [gens |-> [gens1 EXCEPT ![generatorID] = gt2],
                       ret |-> FALSE, panic |-> TRUE]
                 ELSE [gens |-> [gens1 EXCEPT ![generatorID] = addTotals(gt3, res)],
                       ret |-> res.success, panic |-> FALSE]

\* ------------------------------------------- the tracker's calls and locks
\* Threads call the tracker's six operations over and over on one generator
\* and one start ID.  The mutexes are Tracker.mu ("tracker"), the
\* generatorTracker's mu ("generator") and the MessageRange's embedded RWMutex
\* ("range").  locks.held[t] is what thread t holds, as [lock, mode] with mode
\* "R" or "W"; locks.pending[t] is the mutex whose Lock() t has called and not
\* yet returned from.  As in sync.RWMutex, a pending Lock() keeps new readers
\* out, and Lock() returns when nobody holds the mutex.  A locked region that
\* takes no further mutex is one step: it cannot block once entered.
LockLevel(l) ==
  CASE l = "tracker" -> 1
    [] l = "generator" -> 2
    [] l = "range" -> 3

ConcGen == CHOOSE g \in GeneratorIDs : TRUE
LockMsgIDs == {ConcStartID, ConcStartID + 1}

HeldBy(l) == {t \in Threads : \E h \in locks.held[t] : h.lock = l}
WriteHeldBy(l) == {t \in Threads : [lock |-> l, mode |-> "W"] \in locks.held[t]}
PendingOn(l) == {t \in Threads : locks.pending[t] = l}

\* RLock returns: no writer holds the mutex and none is pending
CanRLock(l) == WriteHeldBy(l) = {} /\ PendingOn(l) = {}

\* Lock returns: nobody holds the mutex
CanLock(l) == HeldBy(l) = {}

\* a faulty variant of what Ack holds after its probe: the read lock of
\* Tracker.mu is kept
afterProbe_KeepsReadLock(held) == held \cup {[lock |-> "tracker", mode |-> "R"]}

\* what Ack holds after its probe: t.mu.RUnlock() has run
afterProbe(held) == held \ {[lock |-> "tracker", mode |-> "R"]}

\* thread t goes to pc, holding held, with its Lock() pending on the mutex
Move(t, pc, held, pending) ==
  locks' = [locks EXCEPT !.pc[t] = pc, !.held[t] = held, !.pending[t] = pending]

At(t, pc) == locks.pc[t] = pc

\* the positions at which a call is inside Lock(), its request pending
LockedPcs ==
  {"ack.create.locked", "ack.add.locked", "ack.range.locked", "add.create.locked",
   "add.gen.locked", "add.stamp.locked", "update.range.locked"}

\* the positions at which a call is about to call Lock()
LockCallPcs ==
  {"ack.create", "ack.add", "ack.range", "add.create", "add.gen", "update.range"}

\* the mutex a call asks for at each of its positions
WantedLock(pc) ==
  CASE pc \in {"ack.probe", "add.probe", "update.probe", "isacked.probe", "count.probe",
               "report.probe", "ack.create", "ack.create.locked", "add.create",
               "add.create.locked"} -> "tracker"
    [] pc \in {"ack.find", "ack.add", "ack.add.locked", "add.gen", "add.gen.locked",
               "update.find", "isacked.gen", "count.gen", "report.gen"} -> "generator"
    [] pc \in {"ack.range", "ack.range.locked", "add.stamp.locked", "update.range",
               "update.range.locked", "isacked.range", "count.range", "report.older",
               "report.unacked", "report.stamp"} -> "range"

\* thread t, at pc, gets the mutex it asks for (calling Lock() never waits,
\* returning from it does)
Takes(t, pc) ==
  /\ At(t, pc)
  /\ CASE pc \in LockedPcs -> CanLock(WantedLock(pc))
       [] pc \in LockCallPcs -> TRUE
       [] OTHER -> CanRLock(WantedLock(pc))

\* thread t is inside a call and waits for its mutex
Blocked(t) == ~At(t, "idle") /\ ~Takes(t, locks.pc[t])

\* the threads t waits for
Blockers(t) ==
  IF locks.pc[t] \in LockedPcs
    THEN HeldBy(WantedLock(locks.pc[t]))
    ELSE WriteHeldBy(WantedLock(locks.pc[t])) \cup PendingOn(WantedLock(locks.pc[t]))

GenExists == ConcGen \in DOMAIN generators
RangeExists == HasRange(generators, ConcGen, ConcStartID)
LockedRange == generators[ConcGen].ranges[ConcStartID]

LockFrame == UNCHANGED <<panicked, last, threads, idgenVars, pool, sink, traffic, fiberVars>>

\* a thread enters one of the six operations
CallStart(t, op, msgID) ==
  /\ At(t, "idle")
  /\ op = "ack" => (RangeExists => LockedRange.DuplicateCount <= MaxDup)
  /\ op \notin {"ack", "isacked"} => msgID = ConcStartID
  /\ locks' = [locks EXCEPT !.pc[t] = op \o ".probe", !.msgID[t] = msgID]
  /\ UNCHANGED <<generators, acks>>
  /\ LockFrame

\* Tracker.Ack, lock by lock
AckCall(t) ==
  /\ LockFrame
  /\ \/ \* 3220-3222: the probe under the read lock
        /\ Takes(t, "ack.probe")
        /\ Move(t, IF GenExists THEN "ack.find" ELSE "ack.create",
                afterProbe(locks.held[t] \cup {[lock |-> "tracker", mode |-> "R"]}),
                "none")
        /\ UNCHANGED <<generators, acks>>
     \/ \* 3226: t.mu.Lock() is called
        /\ Takes(t, "ack.create")
        /\ Move(t, "ack.create.locked", locks.held[t], WantedLock("ack.create"))
        /\ UNCHANGED <<generators, acks>>
     \/ \* 3226-3233: the double check under the write lock
        /\ Takes(t, "ack.create.locked")
        /\ generators' = getOrCreateGenerator(generators, ConcGen)
        /\ Move(t, "ack.find", locks.held[t], "none")
        /\ UNCHANGED acks
     \/ \* 3237-3250: the range is looked up under the generator's read lock
        /\ Takes(t, "ack.find")
        /\ Move(t, IF RangeExists THEN "ack.range" ELSE "ack.add", locks.held[t], "none")
        /\ UNCHANGED <<generators, acks>>
     \/ \* 3245: gt.mu.Lock() is called
        /\ Takes(t, "ack.add")
        /\ Move(t, "ack.add.locked", locks.held[t], WantedLock("ack.add"))
        /\ UNCHANGED <<generators, acks>>
     \/ \* 3245-3247: addRange under the generator's write lock
        /\ Takes(t, "ack.add.locked")
        /\ generators' = [generators EXCEPT ![ConcGen] = addRange(@, ConcStartID, MaxLen)]
        /\ Move(t, "ack.range", locks.held[t], "none")
        /\ UNCHANGED acks
     \/ \* 3036: mr.Lock() is called
        /\ Takes(t, "ack.range")
        /\ Move(t, "ack.range.locked", locks.held[t], WantedLock("ack.range"))
        /\ UNCHANGED <<generators, acks>>
     \/ \* 3036-3063 and 3254-3262: mr.Ack under the range's write lock, then
        \* the atomic add to the generator's counter
        /\ Takes(t, "ack.range.locked")
        /\ LET res == MessageRangeAck(LockedRange, locks.msgID[t])
           IN /\ ~res.panic
              /\ generators' =
                   [generators EXCEPT ![ConcGen] =
                      addTotals([@ EXCEPT !.ranges[ConcStartID] = res.mr], res)]
              /\ acks' = IF res.success
                           THEN acks \cup {<<ConcGen, ConcStartID, locks.msgID[t]>>}
                           ELSE acks
        /\ Move(t, "idle", locks.held[t], "none")

\* Tracker.AddRange, lock by lock
AddRangeCall(t) ==
  /\ LockFrame
  /\ UNCHANGED acks
  /\ \/ \* 3269-3271
        /\ Takes(t, "add.probe")
        /\ Move(t, IF GenExists THEN "add.gen" ELSE "add.create", locks.held[t], "none")
        /\ UNCHANGED generators
     \/ \* 3275
        /\ Takes(t, "add.create")
        /\ Move(t, "add.create.locked", locks.held[t], WantedLock("add.create"))
        /\ UNCHANGED generators
     \/ \* 3275-3282
        /\ Takes(t, "add.create.locked")
        /\ generators' = getOrCreateGenerator(generators, ConcGen)
        /\ Move(t, "add.gen", locks.held[t], "none")
     \/ \* 3286: gt.mu.Lock() is called
        /\ Takes(t, "add.gen")
        /\ Move(t, "add.gen.locked", locks.held[t], WantedLock("add.gen"))
        /\ UNCHANGED generators
     \/ \* 3286-3290: the write lock is taken and kept to the end; a new range
        \* is inserted at once, for a known one UpdateTimestamp calls mr.Lock()
        /\ Takes(t, "add.gen.locked")
        /\ IF RangeExists
             THEN /\ Move(t, "add.stamp.locked",
                          locks.held[t] \cup {[lock |-> "generator", mode |-> "W"]},
                          WantedLock("add.stamp.locked"))
                  /\ UNCHANGED generators
             ELSE /\ generators' = [generators EXCEPT ![ConcGen] =
                         addRangeWithTimestamp(@, ConcStartID, MaxLen, PoolNow)]
                  /\ Move(t, "idle", locks.held[t], "none")
     \/ \* 3116-3119, 3163: the timestamp is set under the range's write lock,
        \* then the generator's lock is released
        /\ Takes(t, "add.stamp.locked")
        /\ generators' = [generators EXCEPT ![ConcGen] =
               addRangeWithTimestamp(@, ConcStartID, MaxLen, PoolNow)]
        /\ Move(t, "idle", locks.held[t] \ {[lock |-> "generator", mode |-> "W"]}, "none")

\* Tracker.UpdateRange, lock by lock
UpdateRangeCall(t) ==
  /\ LockFrame
  /\ UNCHANGED acks
  /\ \/ \* 3296-3303
        /\ Takes(t, "update.probe")
        /\ Move(t, IF GenExists THEN "update.find" ELSE "idle", locks.held[t], "none")
        /\ UNCHANGED generators
     \/ \* 3305-3312
        /\ Takes(t, "update.find")
        /\ Move(t, IF RangeExists THEN "update.range" ELSE "idle", locks.held[t], "none")
        /\ UNCHANGED generators
     \/ \* 3314: r.Lock() is called
        /\ Takes(t, "update.range")
        /\ Move(t, "update.range.locked", locks.held[t], WantedLock("update.range"))
        /\ UNCHANGED generators
     \/ \* 3314-3316
        /\ Takes(t, "update.range.locked")
        /\ generators' = [generators EXCEPT ![ConcGen].ranges[ConcStartID] =
               setRangeLen(@, MaxLen)]
        /\ Move(t, "idle", locks.held[t], "none")

\* Tracker.IsAcked, lock by lock
IsAckedCall(t) ==
  /\ LockFrame
  /\ UNCHANGED <<generators, acks>>
  /\ \/ \* 3321-3327
        /\ Takes(t, "isacked.probe")
        /\ Move(t, IF GenExists THEN "isacked.gen" ELSE "idle", locks.held[t], "none")
     \/ \* 3329-3335: the generator's read lock is kept while the range is read
        /\ Takes(t, "isacked.gen")
        /\ IF RangeExists
             THEN Move(t, "isacked.range",
                       locks.held[t] \cup {[lock |-> "generator", mode |-> "R"]}, "none")
             ELSE Move(t, "idle", locks.held[t], "none")
     \/ \* 3337, 3067-3080: r.IsAcked under the range's read lock
        /\ Takes(t, "isacked.range")
        /\ ~MessageRangeIsAckedPanics(LockedRange, locks.msgID[t])
        /\ Move(t, "idle", locks.held[t] \ {[lock |-> "generator", mode |-> "R"]}, "none")

\* Tracker.AckedCount, lock by lock
AckedCountCall(t) ==
  /\ LockFrame
  /\ UNCHANGED <<generators, acks>>
  /\ \/ \* 3343-3346: the tracker's read lock is kept to the end
        /\ Takes(t, "count.probe")
        /\ IF GenExists
             THEN Move(t, "count.gen",
                       locks.held[t] \cup {[lock |-> "tracker", mode |-> "R"]}, "none")
             ELSE Move(t, "idle", locks.held[t], "none")
     \/ \* 3347: the generator's read lock around ackedCount
        /\ Takes(t, "count.gen")
        /\ IF RangeExists
             THEN Move(t, "count.range",
                       locks.held[t] \cup {[lock |-> "generator", mode |-> "R"]}, "none")
             ELSE Move(t, "idle", {}, "none")
     \/ \* 3197, 3093-3098: TotalAckedCount under the range's read lock
        /\ Takes(t, "count.range")
        /\ Move(t, "idle", {}, "none")

\* Tracker.GeneratorReport, lock by lock
GeneratorReportCall(t) ==
  /\ LockFrame
  /\ UNCHANGED <<generators, acks>>
  /\ \/ \* 3365-3368: the tracker's read lock is kept to the end
        /\ Takes(t, "report.probe")
        /\ IF GenExists
             THEN Move(t, "report.gen",
                       locks.held[t] \cup {[lock |-> "tracker", mode |-> "R"]}, "none")
             ELSE Move(t, "idle", locks.held[t], "none")
     \/ \* 3369: the generator's read lock around unackedOlderThan
        /\ Takes(t, "report.gen")
        /\ IF RangeExists
             THEN Move(t, "report.older",
                       locks.held[t] \cup {[lock |-> "generator", mode |-> "R"]}, "none")
             ELSE Move(t, "idle", {}, "none")
     \/ \* 3179: r.OlderThan under the range's read lock
        /\ Takes(t, "report.older")
        /\ IF OlderThan(LockedRange, PoolCutoff)
             THEN Move(t, "report.unacked", locks.held[t], "none")
             ELSE Move(t, "idle", {}, "none")
     \/ \* 3180: r.UnackedCount under the range's read lock
        /\ Takes(t, "report.unacked")
        /\ IF UnackedCount(LockedRange) > 0
             THEN Move(t, "report.stamp", locks.held[t], "none")
             ELSE Move(t, "idle", {}, "none")
     \/ \* 3182-3184: r.GetTimestamp under the range's read lock
        /\ Takes(t, "report.stamp")
        /\ Move(t, "idle", {}, "none")

LockOps == {"ack", "add", "update", "isacked", "count", "report"}

NextLocks ==
  \/ \E t \in Threads, op \in LockOps, m \in LockMsgIDs : CallStart(t, op, m)
  \/ \E t \in Threads : AckCall(t)
  \/ \E t \in Threads : AddRangeCall(t)
  \/ \E t \in Threads : UpdateRangeCall(t)
  \/ \E t \in Threads : IsAckedCall(t)
  \/ \E t \in Threads : AckedCountCall(t)
  \/ \E t \in Threads : GeneratorReportCall(t)

SpecLocks == Init /\ [][NextLocks]_vars

\* ------------------------------------------------------ the sink's Export
\* An attribute is [Key, Value]; a Value is nil, a string or an integer
\* (kind), with the string in str and the integer in int.  A ResourceSpans is
\* [HasResource, Resource, Spans]: HasResource is FALSE for a nil Resource,
\* Resource the resource's attributes, Spans the spans of all its ScopeSpans
\* in order, each span being its attributes.
RES_ATTR_GENERATOR_ID == "RES_ATTR_GENERATOR_ID"
ELEM_ATTR_START_RANGE == "ELEM_ATTR_START_RANGE"
ELEM_ATTR_RANGE_LEN == "ELEM_ATTR_RANGE_LEN"
ELEM_ATTR_MESSAGE_ID == "ELEM_ATTR_MESSAGE_ID"

NilValue == [kind |-> "nil", str |-> "", int |-> 0]
StringValue(v) == [kind |-> "string", str |-> v, int |-> 0]
IntValue(v) == [kind |-> "int", str |-> "", int |-> v]
KeyValue(key, value) == [Key |-> key, Value |-> value]

RECURSIVE ExtractGeneratorIdFrom(_, _)
\* ExtractGeneratorId's loop from attribute i on: the first attribute with the
\* generator key and a non-nil value decides
ExtractGeneratorIdFrom(attrs, i) ==
  IF i > Len(attrs) THEN ""
  ELSE IF attrs[i].Key = RES_ATTR_GENERATOR_ID /\ attrs[i].Value.kind # "nil"
    THEN IF attrs[i].Value.kind = "string" THEN attrs[i].Value.str ELSE ""
    ELSE ExtractGeneratorIdFrom(attrs, i + 1)

ExtractGeneratorId(attrs) == ExtractGeneratorIdFrom(attrs, 1)

\* getIntValue: whether the value is an integer
getIntValueGot(value) == value.kind = "int"

MsgIdKeys == {ELEM_ATTR_START_RANGE, ELEM_ATTR_RANGE_LEN, ELEM_ATTR_MESSAGE_ID}

RECURSIVE ExtractMsgIdParamsFrom(_, _, _, _)
\* ExtractMsgIdParams' loop from attribute i on: msgID is what has been read,
\* have the keys read; a message-ID attribute that is no integer ends the loop
\* with false, the third key read ends it with true
ExtractMsgIdParamsFrom(attrs, i, msgID, have) ==
  IF i > Len(attrs) THEN [msgID |-> msgID, got |-> have = MsgIdKeys]
  ELSE LET a == attrs[i]
       IN IF a.Key \in MsgIdKeys /\ ~getIntValueGot(a.Value)
            THEN [msgID |-> msgID, got |-> FALSE]
            ELSE LET v == a.Value.int % UintModulus
                     msgID1 ==
                       IF a.Key = ELEM_ATTR_START_RANGE THEN [msgID EXCEPT !.StartID = v]
                       ELSE IF a.Key = ELEM_ATTR_RANGE_LEN THEN [msgID EXCEPT !.Len = v]
                       ELSE IF a.Key = ELEM_ATTR_MESSAGE_ID THEN [msgID EXCEPT !.ID = v]
                       ELSE msgID
                     have1 == IF a.Key \in MsgIdKeys THEN have \cup {a.Key} ELSE have
                 IN IF have1 = MsgIdKeys
                      THEN [msgID |-> msgID1, got |-> TRUE]
                      ELSE ExtractMsgIdParamsFrom(attrs, i + 1, msgID1, have1)

ExtractMsgIdParams(attrs) ==
  ExtractMsgIdParamsFrom(attrs, 1, [StartID |-> 0, Len |-> 0, ID |-> 0], {})

\* the span loop's test: whether the span is acked
spanGot(attrs) == ExtractMsgIdParams(attrs).got

RECURSIVE ExportFrom(_, _, _, _, _)
\* Export's loops from span j of ResourceSpans i on, in the tracker state
\* gens, made being the Ack calls made so far: the state afterwards, the calls
\* made, and whether an Ack panicked (which ends the handler without a
\* response)
ExportFrom(request, i, j, gens, made) ==
  IF i > Len(request) THEN [gens |-> gens, made |-> made, panic |-> FALSE]
  ELSE LET rs == request[i]
       IN IF ~rs.HasResource
            THEN ExportFrom(request, i + 1, 1, gens, made)
          ELSE IF ExtractGeneratorId(rs.Resource) = ""
            THEN ExportFrom(request, i + 1, 1, gens, made)
          ELSE IF j > Len(rs.Spans)
            THEN ExportFrom(request, i + 1, 1, gens, made)
          ELSE IF ~spanGot(rs.Spans[j])
            THEN ExportFrom(request, i, j + 1, gens, made)
          ELSE LET genID == ExtractGeneratorId(rs.Resource)
                   msgID == ExtractMsgIdParams(rs.Spans[j]).msgID
                   acked == AckOutcome(gens, genID, msgID.StartID, msgID.Len, msgID.ID)
                   made1 == Append(made, [rs |-> i, span |-> j, generatorID |-> genID,
                                          msgID |-> msgID])
               IN IF acked.panic
                    THEN [gens |-> acked.gens, made |-> made1, panic |-> TRUE]
                    ELSE ExportFrom(request, i, j + 1, acked.gens, made1)

\* what a test request carries.  Attribute keys are unique within a list.
OptionalAttr(key, values) ==
  {<< >>} \cup {<<KeyValue(key, v)>> : v \in values}

SinkSpans ==
  {a \o b \o c :
     a \in OptionalAttr(ELEM_ATTR_START_RANGE, {IntValue(ConcStartID), StringValue("1")}),
     b \in OptionalAttr(ELEM_ATTR_RANGE_LEN,
                        {IntValue(0), IntValue(MaxLen), StringValue("2")}),
     c \in OptionalAttr(ELEM_ATTR_MESSAGE_ID,
                        {IntValue(ConcStartID), IntValue(ConcStartID + MaxLen), NilValue})}

SinkResources ==
  {[HasResource |-> FALSE, Resource |-> << >>]} \cup
  {[HasResource |-> TRUE, Resource |-> r] :
     r \in OptionalAttr(RES_ATTR_GENERATOR_ID,
                        {StringValue("genA"), StringValue(""), IntValue(1), NilValue})}

SinkRequests ==
  {<< [HasResource |-> r.HasResource, Resource |-> r.Resource, Spans |-> spans] >> :
     r \in SinkResources,
     spans \in {<<x>> : x \in SinkSpans} \cup {<<x, y>> : x, y \in SinkSpans}}

\* the sink's first trace export, from the request to the response
Export(request) ==
  LET out == ExportFrom(request, 1, 1, generators, << >>)
  IN /\ sink.op = "none"
     /\ ~panicked
     /\ generators' = out.gens
     /\ panicked' = out.panic
     /\ sink' = [op |-> "Export", request |-> request,
                 response |-> IF out.panic THEN "none" ELSE "empty success",
                 acked |-> out.made]
     /\ UNCHANGED <<last, acks, threads, idgenVars, pool, traffic, locks, fiberVars>>

NextSink == \E request \in SinkRequests : Export(request)

SpecSink == Init /\ [][NextSink]_vars

\* ------------------------------------------------ deliveries to the sink
\* Generators without a control client emit spans; whatever lies between the
\* worker and the sink delivers each span to the sink any number of times up
\* to 1 + MaxDup, in any order.  traffic.gens holds the generators that have
\* emitted, traffic.spans what each has emitted and how often it arrived.
DeliverGenIDs == GeneratorIDs \cup StrangerIDs

\* a span is built: AddElementAttrs takes the generator's next ID
EmitSpan(g) ==
  LET gen == IF g \in DOMAIN traffic.gens THEN traffic.gens[g]
             ELSE NewMsgIdGenerator(g, FALSE)
      nr == nextRange(gen, ALLOC_SIZE, PoolNow)
      g1 == IF needsRange(gen) THEN [nr.g EXCEPT !.currRange = <<nr.mid>>] ELSE gen
      out == msgIdRangeNextId(g1.currRange[1])
      emitted == IF g \in DOMAIN traffic.spans THEN traffic.spans[g] ELSE << >>
  IN /\ Len(emitted) < MaxSpans
     /\ ~msgIdRangeNextIdPanics(g1.currRange[1])
     /\ traffic' = [gens |-> Put(traffic.gens, g, [g1 EXCEPT !.currRange = <<out.r>>]),
                    spans |-> Put(traffic.spans, g, Append(emitted, [id |-> out.id, n |-> 0]))]
     /\ UNCHANGED <<trackerVars, idgenVars, pool, sink, locks, fiberVars>>

\* Export receives the k-th span of generator g and acks it
DeliverSpan(g, k) ==
  LET span == traffic.spans[g][k]
      acked == AckOutcome(generators, g, span.id.StartID, span.id.Len, span.id.ID)
  IN /\ ~panicked
     /\ span.n < 1 + MaxDup
     /\ generators' = acked.gens
     /\ panicked' = acked.panic
     /\ traffic' = [traffic EXCEPT !.spans[g][k].n = @ + 1]
     /\ UNCHANGED <<last, acks, threads, idgenVars, pool, sink, locks, fiberVars>>

NextDeliver ==
  \/ \E g \in DeliverGenIDs : EmitSpan(g)
  \/ \E g \in DOMAIN traffic.spans : \E k \in DOMAIN traffic.spans[g] : DeliverSpan(g, k)

SpecDeliver == Init /\ [][NextDeliver]_vars

\* Workers.Start: the control client's goroutine, a generator and a fiber per
\* worker, and the stats fiber
PoolStart ==
  /\ pool.pc = "idle"
  /\ pool' = [pool EXCEPT
       !.pc = "running",
       !.client = IF pool.withClient THEN "running" ELSE "none",
       !.gens = [f \in Fibers |-> NewMsgIdGenerator(PoolGenIDs[f], pool.withClient)],
       !.fibers = [f \in Fibers |-> "running"],
       !.statsStop = "open",
       !.stats = "running"]
  /\ UNCHANGED <<trackerVars, idgenVars, restVars>>

\* pushWait's ticker case: the fiber builds a batch of one span, which takes
\* the next ID of its generator (announcing a new range when it needs one), and
\* pushes it; the sink acks the span when the push arrives
FiberPush(f, delivered) ==
  LET g == pool.gens[f]
      nr == nextRange(g, ALLOC_SIZE, PoolNow)
      g1 == IF needsRange(g) THEN [nr.g EXCEPT !.currRange = <<nr.mid>>] ELSE g
      sent == IF needsRange(g) THEN nr.sent ELSE << >>
      out == msgIdRangeNextId(g1.currRange[1])
      acked == AckOutcome(generators, g.generatorId, out.id.StartID, out.id.Len, out.id.ID)
  IN /\ pool.pc # "panicked"
     /\ pool.fibers[f] = "running"
     /\ pool.pushes[f] < MaxPushes
     /\ ~panicked
     /\ IF pool.msgChClosed /\ sent # << >>
          THEN /\ pool' = [pool EXCEPT !.sentOnClosed = TRUE, !.pc = "panicked"]
               /\ UNCHANGED <<ctrlChan, generators, panicked>>
          ELSE /\ Len(ctrlChan) + Len(sent) <= CtrlChanCap
               /\ ~msgIdRangeNextIdPanics(g1.currRange[1])
               /\ ctrlChan' = ctrlChan \o sent
               /\ pool' = [pool EXCEPT !.gens[f] = [g1 EXCEPT !.currRange = <<out.r>>],
                                       !.pushes[f] = @ + 1]
               /\ generators' = IF delivered THEN acked.gens ELSE generators
               /\ panicked' = (delivered /\ acked.panic)
     /\ UNCHANGED <<last, acks, threads, idgen, calls, returned, restVars>>

\* pushWait's stopChan case
FiberExit(f) ==
  /\ pool.pc # "panicked"
  /\ pool.fibers[f] = "running"
  /\ pool.stopChan = "closed"
  /\ pool' = [pool EXCEPT !.fibers[f] = "exited"]
  /\ UNCHANGED <<trackerVars, idgenVars, restVars>>

\* printStats' statsStop case
StatsExit ==
  /\ pool.pc # "panicked"
  /\ pool.stats = "running"
  /\ pool.statsStop = "closed"
  /\ pool' = [pool EXCEPT !.stats = "exited"]
  /\ UNCHANGED <<trackerVars, idgenVars, restVars>>

\* a faulty variant of what an attempt leaves in the channel: a message whose
\* request failed stays at the head
afterAttempt_Retry(chan, ok) == IF ok THEN Tail(chan) ELSE chan

\* what an attempt leaves in the channel: the message was received from it
\* before postMessageRange was called
afterAttempt(chan, ok) == Tail(chan)

\* processMessages' msgCh case: the oldest message is taken off the channel
\* and sent to the control server, which handles it; when the request fails
\* (reached: FALSE) the error is logged and the loop goes on
ClientForward(reached) ==
  LET msg == Head(ctrlChan)
      answer == handleMessageRange(generators, methodOf(msg), msg)
  IN /\ pool.pc # "panicked"
     /\ pool.client = "running"
     /\ ctrlChan # << >>
     /\ ~panicked
     /\ ctrlChan' = afterAttempt(ctrlChan, reached)
     /\ generators' = IF reached THEN answer.gens ELSE generators
     /\ pool' = [pool EXCEPT !.posted =
                   Append(@, [msg |-> msg, ok |-> reached /\ answer.status = 200])]
     /\ UNCHANGED <<panicked, last, acks, threads, idgen, calls, returned, restVars>>

\* processMessages' stopCh case: select may take it as soon as stopCh is
\* closed, whatever msgCh still holds
ClientExit ==
  /\ pool.pc # "panicked"
  /\ pool.client = "running"
  /\ pool.stopCh = "closed"
  /\ pool' = [pool EXCEPT !.client = "exited"]
  /\ UNCHANGED <<trackerVars, idgenVars, restVars>>

\* statsWg.Wait() returns once the stats fiber is gone
statsWaitDone(p) == p.stats = "exited"

\* a faulty variant of the workers' wait: it returns at once
workersWaitDone_NoWait(p) == TRUE

\* o.wg.Wait() in StopAll returns once every fiber is gone
workersWaitDone(p) == \A f \in Fibers : p.fibers[f] = "exited"

\* c.wg.Wait() in the client's Stop returns once processMessages returned
clientWaitDone(p) == p.client = "exited"

\* the generators Workers.Stop has not reached yet, in the order of msg_id_gens
GensToStop(p) == {i \in DOMAIN p.gens : ~p.gens[i].stopped}

\* Workers.Stop, first statement: close(w.statsStop)
StopCloseStats ==
  /\ pool.pc = "running"
  /\ pool' = [pool EXCEPT !.statsStop = "closed", !.pc = "waitStats"]
  /\ UNCHANGED <<trackerVars, idgenVars, restVars>>

\* Workers.Stop: w.statsWg.Wait()
StopWaitStats ==
  /\ pool.pc = "waitStats"
  /\ statsWaitDone(pool)
  /\ pool' = [pool EXCEPT !.pc = "stopWorkers"]
  /\ UNCHANGED <<trackerVars, idgenVars, restVars>>

\* StopAll: close(o.stopChan)
StopAllClose ==
  /\ pool.pc = "stopWorkers"
  /\ pool' = [pool EXCEPT !.stopChan = "closed", !.pc = "waitWorkers"]
  /\ UNCHANGED <<trackerVars, idgenVars, restVars>>

\* StopAll: o.wg.Wait()
StopAllWait ==
  /\ pool.pc = "waitWorkers"
  /\ workersWaitDone(pool)
  /\ pool' = [pool EXCEPT !.pc = "stopGens"]
  /\ UNCHANGED <<trackerVars, idgenVars, restVars>>

\* Workers.Stop: msg_id.Stop() of the next generator of msg_id_gens
StopGen ==
  /\ pool.pc = "stopGens"
  /\ GensToStop(pool) # {}
  /\ LET i == CHOOSE i \in GensToStop(pool) : \A j \in GensToStop(pool) : i <= j
         sent == stopSends(pool.gens[i])
     IN /\ Len(ctrlChan) + Len(sent) <= CtrlChanCap
        /\ ctrlChan' = ctrlChan \o sent
        /\ pool' = [pool EXCEPT !.gens[i].stopped = TRUE]
  /\ UNCHANGED <<trackerVars, idgen, calls, returned, restVars>>

\* Workers.Stop: the loop over msg_id_gens is over
StopGensDone ==
  /\ pool.pc = "stopGens"
  /\ GensToStop(pool) = {}
  /\ pool' = [pool EXCEPT !.pc = "stopClient"]
  /\ UNCHANGED <<trackerVars, idgenVars, restVars>>

\* Workers.Stop: without a control client it returns; with one, the client's
\* Stop begins with close(c.stopCh)
StopClientClose ==
  /\ pool.pc = "stopClient"
  /\ pool' = IF pool.withClient
               THEN [pool EXCEPT !.stopCh = "closed", !.pc = "waitClient"]
               ELSE [pool EXCEPT !.pc = "stopped"]
  /\ UNCHANGED <<trackerVars, idgenVars, restVars>>

\* the client's Stop: c.wg.Wait(), then close(c.msgCh); Workers.Stop returns
StopClientWait ==
  /\ pool.pc = "waitClient"
  /\ clientWaitDone(pool)
  /\ pool' = [pool EXCEPT !.msgChClosed = TRUE, !.pc = "stopped"]
  /\ UNCHANGED <<trackerVars, idgenVars, restVars>>

\* Workers.Stop called on a stopped pool: its first statement closes
\* statsStop, which is closed already, and the runtime panics
StopAgain ==
  /\ pool.pc = "stopped"
  /\ pool' = [pool EXCEPT !.pc = "panicked"]
  /\ UNCHANGED <<trackerVars, idgenVars, restVars>>

InitPool ==
  /\ InitTracker
  /\ InitIdGen(TRUE)
  /\ \E withClient \in BOOLEAN : pool = NewWorkers(withClient)
  /\ InitRest

NextPool ==
  \/ PoolStart
  \/ \E f \in Fibers, delivered \in BOOLEAN : FiberPush(f, delivered)
  \/ \E f \in Fibers : FiberExit(f)
  \/ StatsExit
  \/ \E reached \in BOOLEAN : ClientForward(reached)
  \/ ClientExit
  \/ StopCloseStats
  \/ StopWaitStats
  \/ StopAllClose
  \/ StopAllWait
  \/ StopGen
  \/ StopGensDone
  \/ StopClientClose
  \/ StopClientWait
  \/ StopAgain

SpecPool == InitPool /\ [][NextPool]_vars

\* ------------------------------------------------- one traces worker fiber
\* A traces worker with one fiber and that fiber's generator (no control
\* client, so the generator has no channel).  The fiber is at pushWait's select
\* ("select"), inside pushIt with its batch built ("pushing"), gone ("exited")
\* or has panicked, which ends the process.  spansExported is the history of
\* how many spans the successfully exported batches held, before the last ID
\* the generator had handed out when the batch was begun, refused whether an
\* export was answered with a status outside 2xx.

\* nextId: allocate when there is no range or it is full, then take the next
\* ID of the current range
genNextId(g, now) ==
  LET nr == nextRange(g, ALLOC_SIZE, now)
      g1 == IF needsRange(g) THEN [nr.g EXCEPT !.currRange = <<nr.mid>>] ELSE g
      out == msgIdRangeNextId(g1.currRange[1])
  IN [g |-> [g1 EXCEPT !.currRange = <<out.r>>], id |-> out.id]

\* the generator after n <= ALLOC_SIZE calls of nextId: the first call
\* allocates the range, every later one adds 1 to its used
issueIds(g, n) ==
  IF n = 0 THEN g
  ELSE [genNextId(g, PoolNow).g EXCEPT !.currRange[1].used = n]

RECURSIVE buildSpans(_, _, _, _)
\* buildBatch's inner loop from span j on: every span takes one ID through
\* AddElementAttrs and is appended to the resource's spans
buildSpans(g, j, spansPerResource, spans) ==
  IF j >= spansPerResource THEN [g |-> g, spans |-> spans]
  ELSE LET next == genNextId(g, PoolNow)
       IN buildSpans(next.g, j + 1, spansPerResource, Append(spans, next.id))

RECURSIVE buildBatchFrom(_, _, _, _, _)
\* buildBatch's outer loop from resource i on
buildBatchFrom(g, i, resources, spansPerResource, resSpanPtrs) ==
  IF i > resources THEN [g |-> g, batch |-> resSpanPtrs]
  ELSE LET rs == buildSpans(g, 0, spansPerResource, << >>)
       IN buildBatchFrom(rs.g, i + 1, resources, spansPerResource,
                         Append(resSpanPtrs, rs.spans))

\* buildBatch over the resources pushWait has made, one per resourcesPerBatch
buildBatch(g, resourcesPerBatch, spansPerResource) ==
  buildBatchFrom(g, 1, resourcesPerBatch, spansPerResource, << >>)

\* the number of spans in a batch
RECURSIVE SpansIn(_)
SpansIn(batch) == IF batch = << >> THEN 0 ELSE Len(Head(batch)) + SpansIn(Tail(batch))

\* what a successful push adds to the spans-sent stat
spansCounted(useGRPC, resourcesPerBatch, spansPerResource) ==
  IF useGRPC THEN resourcesPerBatch * spansPerResource ELSE spansPerResource

\* what follows an export answered with a status outside 2xx (HTTP) or with
\* rejected spans (gRPC): pushBatchHTTP logs and returns, pushBatchGRPC panics
afterRefusal(useGRPC) == IF useGRPC THEN "panicked" ELSE "select"

\* the last ID a generator has handed out, 0 before the first
LastIssued(g) ==
  IF g.currRange = << >> THEN 0
  ELSE g.currRange[1].startId + g.currRange[1].used - 1

NewTracesWorker(useGRPC, resourcesPerBatch, spansPerResource, g) ==
  [pc |-> "select",
   useGRPC |-> useGRPC,
   resourcesPerBatch |-> resourcesPerBatch,
   spansPerResource |-> spansPerResource,
   gen |-> g,
   stopChan |-> "open",
   stopAll |-> "idle",
   batch |-> << >>,
   before |-> LastIssued(g),
   pushes |-> 0,
   exported |-> 0,
   spansExported |-> 0,
   refused |-> FALSE,
   statTracesSent |-> 0,
   statBatchesSent |-> 0]

\* the generator is new, or has handed out all IDs of its first range but
\* one, or but a few
WarmUps == {0, ALLOC_SIZE - 1, ALLOC_SIZE - MaxPerBatch - 1}

InitWorker ==
  /\ InitTracker
  /\ InitIdGen(TRUE)
  /\ pool = NewWorkers(TRUE)
  /\ sink = NoRequest /\ traffic = NoTraffic /\ locks = NoLocks /\ stat = NoStat
  /\ \E useGRPC \in BOOLEAN, r \in 1 .. MaxPerBatch, n \in 1 .. MaxPerBatch, w \in WarmUps :
       worker = NewTracesWorker(useGRPC, r, n,
                                issueIds(NewMsgIdGenerator("genA", FALSE), w))

WorkerFrame == UNCHANGED <<trackerVars, idgenVars, pool, sink, traffic, locks, stat>>

\* pushWait's ticker case, up to the export call: pushIt builds the batch
WorkerTick ==
  LET built == buildBatch(worker.gen, worker.resourcesPerBatch, worker.spansPerResource)
  IN /\ worker.pc = "select"
     /\ worker.pushes < MaxBatches
     /\ worker' = [worker EXCEPT !.pc = "pushing",
                                 !.gen = built.g,
                                 !.batch = built.batch,
                                 !.before = LastIssued(worker.gen),
                                 !.pushes = @ + 1]
     /\ WorkerFrame

\* the export call returns: with an error (a panic in both modes), with a
\* refusal, or with success, after which the stats are incremented
WorkerPushed(outcome) ==
  /\ worker.pc = "pushing"
  /\ worker' =
       CASE outcome = "error" -> [worker EXCEPT !.pc = "panicked"]
         [] outcome = "refused" ->
              [worker EXCEPT !.pc = afterRefusal(worker.useGRPC), !.refused = TRUE]
         [] outcome = "ok" ->
              [worker EXCEPT
                 !.pc = "select",
                 !.exported = @ + 1,
                 !.spansExported = @ + SpansIn(worker.batch),
                 !.statTracesSent =
                    (@ + spansCounted(worker.useGRPC, worker.resourcesPerBatch,
                                      worker.spansPerResource)) % UintModulus,
                 !.statBatchesSent = (@ + 1) % UintModulus]
  /\ WorkerFrame

\* pushWait's stopChan case
WorkerExit ==
  /\ worker.pc = "select"
  /\ worker.stopChan = "closed"
  /\ worker' = [worker EXCEPT !.pc = "exited"]
  /\ WorkerFrame

\* StopAll: close(o.stopChan)
WorkerStopAll ==
  /\ worker.stopAll = "idle"
  /\ worker.pc # "panicked"
  /\ worker' = [worker EXCEPT !.stopChan = "closed", !.stopAll = "waiting"]
  /\ WorkerFrame

\* StopAll: o.wg.Wait() returns
WorkerStopAllDone ==
  /\ worker.stopAll = "waiting"
  /\ worker.pc = "exited"
  /\ worker' = [worker EXCEPT !.stopAll = "returned"]
  /\ WorkerFrame

Outcomes == {"ok", "refused", "error"}

NextWorker ==
  \/ WorkerTick
  \/ \E outcome \in Outcomes : WorkerPushed(outcome)
  \/ WorkerExit
  \/ WorkerStopAll
  \/ WorkerStopAllDone

SpecWorker == InitWorker /\ [][NextWorker]_vars

\* ---------------------------------------------------- a stat and its reports
\* One stat of a domain, incremented by worker fibers and read by the stats
\* fiber's Report.  A report of the stat is modelled in two steps, the atomic
\* load of the counter and the rest of the locked region, so that Incr can run
\* between them.  Histories: delta is the delta of the last StatReport, deltas
\* the sum of all deltas reported, added the sum of the increments since the
\* first report read the counter, sinceLoad those since the last report read it.
NewStat ==
  [pc |-> "idle", value |-> 0, lastReportValue |-> 0, lastReportTime |-> ZeroTime,
   currValue |-> 0, now |-> ZeroTime, reports |-> 0, delta |-> 0, deltas |-> 0,
   incrs |-> 0, added |-> 0, sinceLoad |-> 0]

\* the amounts Incr is called with: one, and one that makes the counter wrap
IncrDeltas == {1, UintModulus - 1}

\* a faulty variant of the snapshot: the counter is read a second time
snapshotValue_ReadsAgain(currValue, value) == value

\* the value report() records as lastReportValue: the one it loaded
snapshotValue(currValue, value) == currValue

StatFrame == UNCHANGED <<trackerVars, idgenVars, pool, sink, traffic, locks, worker>>

\* stat.Incr: s.value.Add(delta)
StatIncr(delta) ==
  /\ stat.incrs < MaxIncrs
  /\ stat' = [stat EXCEPT
       !.value = (@ + delta) % UintModulus,
       !.incrs = @ + 1,
       !.added = IF stat.lastReportTime = ZeroTime THEN @ ELSE (@ + delta) % UintModulus,
       !.sinceLoad = IF stat.lastReportTime = ZeroTime THEN @ ELSE (@ + delta) % UintModulus]
  /\ StatFrame

\* report(now) reaches the stat: on the first report the snapshot is
\* initialised and nothing is reported, later the counter is loaded
StatReportLoad(now) ==
  /\ stat.pc = "idle"
  /\ stat.reports < MaxReports
  /\ IF stat.lastReportTime = ZeroTime
       THEN stat' = [stat EXCEPT !.lastReportTime = now,
                                 !.lastReportValue = stat.value,
                                 !.sinceLoad = 0]
       ELSE stat' = [stat EXCEPT !.pc = "loaded",
                                 !.currValue = stat.value,
                                 !.now = now,
                                 !.sinceLoad = 0]
  /\ StatFrame

\* report(now): the StatReport is appended and the snapshot advanced
StatReportRecord ==
  /\ stat.pc = "loaded"
  /\ stat' = [stat EXCEPT
       !.pc = "idle",
       !.delta = (stat.currValue - stat.lastReportValue) % UintModulus,
       !.deltas = (@ + stat.currValue - stat.lastReportValue) % UintModulus,
       !.reports = @ + 1,
       !.lastReportTime = stat.now,
       !.lastReportValue = snapshotValue(stat.currValue, stat.value)]
  /\ StatFrame

InitStats ==
  /\ InitTracker
  /\ InitIdGen(TRUE)
  /\ pool = NewWorkers(TRUE)
  /\ sink = NoRequest /\ traffic = NoTraffic /\ locks = NoLocks /\ worker = NoWorker
  /\ stat = NewStat

NextStats ==
  \/ \E delta \in IncrDeltas : StatIncr(delta)
  \/ \E now \in Times \ {ZeroTime} : StatReportLoad(now)
  \/ StatReportRecord

SpecStats == InitStats /\ [][NextStats]_vars

\* the lifecycle state the pool is in
Lifecycle(p) ==
  CASE p.pc = "idle" -> "Idle"
    [] p.pc = "running" -> "Running"
    [] p.pc = "stopped" -> "Stopped"
    [] p.pc = "panicked" -> "Failed"
    [] OTHER -> "Stopping"

\* ------------------------------------------------ vocabulary of the claims

RangeAt(gens, generatorID, startRangeID) == gens[generatorID].ranges[startRangeID]

\* the offsets whose bit is 1 in the range's bitmap
SetBits(mr) ==
  UNION {{(i - 1) * WordBits + b : b \in mr.bitmap[i]} : i \in DOMAIN mr.bitmap}

RECURSIVE SumInt(_, _)
\* the sum of f[k] over the keys ks, in the integers
SumInt(f, ks) ==
  IF ks = {} THEN 0
  ELSE LET k == CHOOSE x \in ks : TRUE
       IN f[k] + SumInt(f, ks \ {k})

RangeKeys ==
  {k \in GeneratorIDs \X StartIDs : HasRange(generators, k[1], k[2])}

\* ------------------------------------------------------------------ C1
\* C1: in every reachable state every MessageRange has AckedCount equal to
\* the number of bitmap bits set at offsets 0 .. RangeLen-1, so AckedCount <=
\* RangeLen and UnackedCount() is RangeLen - AckedCount without underflow.
C1_AckedCountIsPopcount ==
  \A k \in RangeKeys :
    LET mr == RangeAt(generators, k[1], k[2])
    IN /\ mr.AckedCount = Cardinality({b \in SetBits(mr) : b < mr.RangeLen})
       /\ mr.AckedCount <= mr.RangeLen
       /\ UnackedCount(mr) = mr.RangeLen - mr.AckedCount

\* ------------------------------------------------------------------ C2
\* C2: once every concurrent Ack of one range has returned, the range's
\* AckedCount is the number of distinct in-range msgIDs the calls carried, each
\* of those calls returned true, and IsAcked is true of each such msgID.
AllReturned == \A t \in Threads : threads[t].pc = "done"

C2_ConcurrentAcksAllCounted ==
  AllReturned =>
    \A g \in GeneratorIDs :
      LET mr == RangeAt(generators, g, ConcStartID)
          callers == {t \in Threads : threads[t].generatorID = g}
          inRange == {t \in callers : contains(mr, threads[t].msgID)}
      IN callers # {} =>
           /\ HasRange(generators, g, ConcStartID)
           /\ mr.AckedCount = Cardinality({threads[t].msgID : t \in inRange})
           /\ \A t \in callers : threads[t].ret = (t \in inRange)
           /\ \A t \in inRange : IsAcked(generators, g, ConcStartID, threads[t].msgID)

\* every thread has returned true and the threads acked two distinct msgIDs
\* between them
C2_Witness ==
  /\ AllReturned
  /\ \A t \in Threads : threads[t].ret
  /\ Cardinality({threads[t].msgID : t \in Threads}) = 2

\* ------------------------------------------------------------------ C3
\* C3: an Ack of an in-range msgID that no earlier Ack has marked sets its
\* bit, adds exactly 1 to AckedCount and leaves DuplicateCount alone; an Ack of
\* a msgID already marked leaves bitmap and AckedCount alone and adds exactly 1
\* to DuplicateCount.
C3_AckStep(g, s, l, m) ==
  (/\ last'.op = "Ack" /\ ~panicked'
   /\ HasRange(generators', g, s)
   /\ contains(RangeAt(generators', g, s), m)
   /\ TrackerAck(g, s, l, m)) =>
    LET post == RangeAt(generators', g, s)
        pre == IF HasRange(generators, g, s) THEN RangeAt(generators, g, s)
               ELSE NewMessageRange(s, l)
    IN IF <<g, s, m>> \notin acks
         THEN /\ (m - s) \notin SetBits(pre)
              /\ SetBits(post) = SetBits(pre) \cup {m - s}
              /\ post.AckedCount = pre.AckedCount + 1
              /\ post.DuplicateCount = pre.DuplicateCount
         ELSE /\ post.bitmap = pre.bitmap
              /\ post.AckedCount = pre.AckedCount
              /\ post.DuplicateCount = pre.DuplicateCount + 1

C3_FirstAckThenDuplicates ==
  [][\A g \in GeneratorIDs, s \in StartIDs, m \in MsgIDs :
       \A l \in LensFor(g, s, RangeLens) : C3_AckStep(g, s, l, m)]_vars

\* a fresh ack and a duplicate ack have both been counted on one range
C3_Witness ==
  /\ last.op = "Ack" /\ last.ret
  /\ \E k \in RangeKeys :
       /\ RangeAt(generators, k[1], k[2]).AckedCount = 2
       /\ RangeAt(generators, k[1], k[2]).DuplicateCount = 1

\* ------------------------------------------------------------------ C4
\* C4: for every generator the AckedCount of its ranges add up to its
\* totalAcked, and their DuplicateCount to its totalDuped.
C4_TotalsAreSums ==
  \A g \in DOMAIN generators :
    LET rs == generators[g].ranges
    IN /\ SumInt([s \in DOMAIN rs |-> rs[s].AckedCount], DOMAIN rs)
            = generators[g].totalAcked
       /\ SumInt([s \in DOMAIN rs |-> rs[s].DuplicateCount], DOMAIN rs)
            = generators[g].totalDuped

\* two ranges of one generator have each taken fresh acks and a duplicate
C4_Witness ==
  /\ last.op = "Ack"
  /\ \E g \in DOMAIN generators :
       /\ Cardinality(DOMAIN generators[g].ranges) = 2
       /\ \A s \in DOMAIN generators[g].ranges :
            /\ generators[g].ranges[s].AckedCount >= 1
            /\ generators[g].ranges[s].DuplicateCount >= 1
       /\ generators[g].totalAcked >= 3

\* ------------------------------------------------------------------ C5
\* C5: an UpdateRange whose new length exceeds the range's length, or lies at
\* or below the offset of an acked bit, leaves the range as it was.
C5_UpdateStep(g, s, l) ==
  (/\ last'.op = "UpdateRange"
   /\ HasRange(generators, g, s)
   /\ \/ l > RangeAt(generators, g, s).RangeLen
      \/ \E b \in SetBits(RangeAt(generators, g, s)) : b >= l
   /\ TrackerUpdateRange(g, s, l))
    => RangeAt(generators', g, s) = RangeAt(generators, g, s)

C5_ViolatingUpdateIsNoOp ==
  [][\A g \in GeneratorIDs, s \in StartIDs, l \in AnnouncedLens :
       C5_UpdateStep(g, s, l)]_vars

\* ------------------------------------------------------------------ C6
\* C6: an UpdateRange on an existing range, to a length no greater than the
\* current one and above every acked offset, sets RangeLen to it, lowers the
\* unacked count by exactly the difference, and keeps AckedCount, the
\* generator's totalAcked and every IsAcked answer that was true.
C6_UpdateStep(g, s, l) ==
  (/\ last'.op = "UpdateRange"
   /\ HasRange(generators, g, s)
   /\ l <= RangeAt(generators, g, s).RangeLen
   /\ \A b \in SetBits(RangeAt(generators, g, s)) : b < l
   /\ TrackerUpdateRange(g, s, l))
    => LET pre == RangeAt(generators, g, s)
           post == RangeAt(generators', g, s)
       IN /\ post.RangeLen = l
          /\ UnackedCount(post) = UnackedCount(pre) - (pre.RangeLen - l)
          /\ post.AckedCount = pre.AckedCount
          /\ generators'[g].totalAcked = generators[g].totalAcked
          /\ \A m \in MsgIDs :
               IsAcked(generators, g, s, m) => IsAcked(generators', g, s, m)

C6_TruncationKeepsAcks ==
  [][\A g \in GeneratorIDs, s \in StartIDs, l \in AnnouncedLens :
       C6_UpdateStep(g, s, l)]_vars

\* the only range, of length 2 with message 0 acked, has been cut to length 1
C6_Witness ==
  /\ last.op = "UpdateRange" /\ last.old = 2
  /\ Cardinality(RangeKeys) = 1
  /\ \A k \in RangeKeys :
       /\ RangeAt(generators, k[1], k[2]).RangeLen = 1
       /\ RangeAt(generators, k[1], k[2]).AckedCount = 1
       /\ SetBits(RangeAt(generators, k[1], k[2])) = {0}
       /\ IsAcked(generators, k[1], k[2], k[2])

\* ------------------------------------------------------------------ C7
\* C7: an Ack that carries a well-formed MsgID (rangeLen >= 1, startID <= msgID
\* < startID + rangeLen) for a range the tracker does not hold returns true
\* and creates the range (and the generator) with the zero timestamp, the
\* given length and this one message acked, the generator's totalAcked
\* growing by 1; and in every state a range whose timestamp is zero adds
\* nothing to the Unacked of any GeneratorReport.
C7_AckStep(g, s, l, m) ==
  (/\ last'.op = "Ack"
   /\ ~HasRange(generators, g, s)
   /\ l >= 1 /\ s <= m /\ m < s + l
   /\ TrackerAck(g, s, l, m))
    => /\ ~panicked'
       /\ last'.ret
       /\ HasRange(generators', g, s)
       /\ RangeAt(generators', g, s).Timestamp = ZeroTime
       /\ RangeAt(generators', g, s).RangeLen = l
       /\ RangeAt(generators', g, s).AckedCount = 1
       /\ IsAcked(generators', g, s, m)
       /\ generators'[g].totalAcked =
            (IF g \in DOMAIN generators THEN generators[g].totalAcked ELSE 0) + 1

C7_ZeroTimeUncounted ==
  \A k \in RangeKeys :
    RangeAt(generators, k[1], k[2]).Timestamp = ZeroTime =>
      LET gt == generators[k[1]]
          others == [s \in (DOMAIN gt.ranges) \ {k[2]} |-> gt.ranges[s]]
      IN \A c \in Cutoffs :
           GeneratorReport(generators, c)[k[1]].Unacked =
             unackedOlderThan([gt EXCEPT !.ranges = others], c).total

C7_AckBeforeAnnouncement ==
  /\ [][\A g \in GeneratorIDs, s \in StartIDs, l \in RangeLens, m \in MsgIDs :
          C7_AckStep(g, s, l, m)]_vars
  /\ []C7_ZeroTimeUncounted

\* an Ack has just created a range of length 2, which has one message unacked
\* and no timestamp, beside an announced range that is reported as lagging
C7_Witness ==
  /\ last.op = "Ack" /\ last.ret /\ last.old = 0
  /\ \E g \in DOMAIN generators :
       /\ Cardinality(DOMAIN generators[g].ranges) = 2
       /\ \E s \in DOMAIN generators[g].ranges :
            /\ generators[g].ranges[s].Timestamp = ZeroTime
            /\ generators[g].ranges[s].RangeLen = 2
            /\ generators[g].ranges[s].AckedCount = 1
       /\ GeneratorReport(generators, MaxTime + 1)[g].Unacked = 1

\* ------------------------------------------------------------------ C8
\* C8: an AddRange for a range the tracker already holds changes that range's
\* Timestamp and nothing else in the tracker, whatever length it announces.
C8_AddStep(g, s, l, t) ==
  (last'.op = "AddRange" /\ HasRange(generators, g, s) /\ TrackerAddRange(g, s, l, t))
    => generators' = [generators EXCEPT ![g].ranges[s].Timestamp = t]

C8_ReannouncementSetsTimestampOnly ==
  [][\A g \in GeneratorIDs, s \in StartIDs, t \in Times :
       \A l \in LensFor(g, s, AnnouncedLens) : C8_AddStep(g, s, l, t)]_vars

\* the only range, created by an Ack with length 1 and one duplicate, has then
\* been announced (the model announces a known range with length MaxLen)
C8_Witness ==
  /\ last.op = "AddRange" /\ last.old = 1
  /\ MaxLen > 1
  /\ Cardinality(RangeKeys) = 1
  /\ \A k \in RangeKeys :
       /\ RangeAt(generators, k[1], k[2]).RangeLen = 1
       /\ RangeAt(generators, k[1], k[2]).AckedCount = 1
       /\ RangeAt(generators, k[1], k[2]).DuplicateCount = 1
       /\ RangeAt(generators, k[1], k[2]).Timestamp # ZeroTime

\* ------------------------------------------------------------------ C9
\* C9: for every generator and cutoff, GeneratorReport(cutoff).Unacked is the
\* sum of RangeLen - AckedCount over the generator's ranges whose timestamp is
\* not zero and is strictly before the cutoff.
C9_UnackedIsFilteredSum ==
  \A g \in DOMAIN generators : \A c \in Cutoffs :
    LET rs == generators[g].ranges
        counted == {s \in DOMAIN rs : rs[s].Timestamp # ZeroTime /\ rs[s].Timestamp < c}
    IN GeneratorReport(generators, c)[g].Unacked =
         SumInt([s \in counted |-> rs[s].RangeLen - rs[s].AckedCount], counted)

\* ------------------------------------------------------------------ C10
\* C10: the first nextId call of a generator returns ID 1 and every later call
\* returns exactly the previous ID plus one, whether or not the call allocated
\* a new range.
C10_NextIdStep ==
  calls' = calls + 1 =>
    returned'.ID = IF calls = 0 THEN 1 ELSE returned.ID + 1

C10_IdsCountUpFromOne == [][C10_NextIdStep]_vars

\* the call after the first range was used up: the ID just returned is the
\* first of the second range
C10_Witness ==
  /\ calls = ALLOC_SIZE + 1
  /\ returned.StartID = ALLOC_SIZE + 1
  /\ returned.ID = returned.StartID
  /\ idgen.currRange[1].used = 1

\* ------------------------------------------------------------------ C11
\* C11: Stop sends one update for the generator's current range, carrying as
\* its length the number of IDs issued from that range, exactly when there is
\* a channel and the current range is not used up; otherwise Stop sends
\* nothing; and no update is sent by anything but that one Stop, so no range
\* is shortened twice.
Appended == SubSeq(ctrlChan', Len(ctrlChan) + 1, Len(ctrlChan'))

C11_StopStep ==
  /\ (~idgen.stopped /\ idgen'.stopped) =>
       /\ ctrlChan' = ctrlChan \o Appended
       /\ IF /\ idgen.withChan
             /\ idgen.currRange # << >>
             /\ idgen.currRange[1].used < idgen.currRange[1].len
            THEN /\ Len(Appended) = 1
                 /\ Appended[1].Type = "update"
                 /\ Appended[1].GeneratorID = idgen.generatorId
                 /\ Appended[1].StartID = idgen.currRange[1].startId
                 /\ Appended[1].RangeLen = calls - (idgen.currRange[1].startId - 1)
            ELSE Appended = << >>
  /\ (idgen.stopped = idgen'.stopped) =>
       \A i \in 1 .. Len(ctrlChan') :
         ctrlChan'[i].Type = "update" => \E j \in 1 .. Len(ctrlChan) : ctrlChan[j] = ctrlChan'[i]
  /\ idgen.stopped => idgen'.stopped

C11_StopTruncatesOnce == [][C11_StopStep]_vars

\* the generator was stopped part-way through its second range and the update
\* for that range is in the channel
C11_Witness ==
  /\ idgen.stopped
  /\ calls > ALLOC_SIZE /\ calls < 2 * ALLOC_SIZE
  /\ \E i \in 1 .. Len(ctrlChan) :
       /\ ctrlChan[i].Type = "update"
       /\ ctrlChan[i].StartID = ALLOC_SIZE + 1
       /\ ctrlChan[i].RangeLen = calls - ALLOC_SIZE

\* ------------------------------------------------------------------ C20
\* C20: every MsgID that nextId returns has StartID <= ID < StartID + Len,
\* with Len = ALLOC_SIZE.
C20_IdInsideItsRange ==
  calls > 0 =>
    /\ returned.StartID <= returned.ID
    /\ returned.ID < returned.StartID + returned.Len
    /\ returned.Len = ALLOC_SIZE

\* the last ID of the first range has just been handed out
C20_Witness ==
  /\ calls = ALLOC_SIZE
  /\ returned.ID = returned.StartID + returned.Len - 1
  /\ ~idgen.stopped

\* ------------------------------------------------------------------ C16
\* C16: no tracker operation aborts its caller, whatever its input: no Ack,
\* AddRange or UpdateRange has panicked, and IsAcked panics for no msgID.
C16_TrackerNeverAborts ==
  /\ ~panicked
  /\ \A k \in RangeKeys : \A m \in MsgIDs :
       ~MessageRangeIsAckedPanics(RangeAt(generators, k[1], k[2]), m)

\* ------------------------------------------------------------------ C17
\* C17: an Ack of a msgID below StartID, or at or above StartID + RangeLen,
\* returns false and leaves the range's bitmap, AckedCount and DuplicateCount
\* and the generator's totalAcked and totalDuped as they were; the msgID
\* StartID + RangeLen - 1 is accepted.
C17_AckStep(g, s, l, m) ==
  (last'.op = "Ack" /\ ~panicked' /\ TrackerAck(g, s, l, m)) =>
    LET pre == IF HasRange(generators, g, s) THEN RangeAt(generators, g, s)
               ELSE NewMessageRange(s, l)
        post == RangeAt(generators', g, s)
        gtPre == IF g \in DOMAIN generators THEN generators[g] ELSE newGeneratorTracker
    IN IF m < s \/ m >= s + pre.RangeLen
         THEN /\ ~last'.ret
              /\ post.bitmap = pre.bitmap
              /\ post.AckedCount = pre.AckedCount
              /\ post.DuplicateCount = pre.DuplicateCount
              /\ post.RangeLen = pre.RangeLen
              /\ generators'[g].totalAcked = gtPre.totalAcked
              /\ generators'[g].totalDuped = gtPre.totalDuped
         ELSE m = s + pre.RangeLen - 1 => last'.ret

C17_OutOfRangeAckChangesNothing ==
  [][\A g \in GeneratorIDs, s \in StartIDs, m \in MsgIDs :
       \A l \in LensFor(g, s, RangeLens) : C17_AckStep(g, s, l, m)]_vars

\* an Ack has just been rejected and every message of some range is acked
C17_Witness ==
  /\ last.op = "Ack" /\ ~last.ret /\ ~panicked
  /\ \E k \in RangeKeys :
       LET mr == RangeAt(generators, k[1], k[2])
       IN /\ mr.RangeLen = MaxLen
          /\ mr.AckedCount = MaxLen
          /\ SetBits(mr) = 0 .. (MaxLen - 1)

\* ------------------------------------------------------------------ C18
\* C18: an UpdateRange that names an unknown generator, or a start ID the
\* generator has no range for, changes nothing in the tracker: no generator
\* and no range appears and none changes.
C18_UpdateStep(g, s, l) ==
  (/\ last'.op = "UpdateRange"
   /\ ~HasRange(generators, g, s)
   /\ TrackerUpdateRange(g, s, l))
    => generators' = generators

C18_UnknownUpdateIsNoOp ==
  [][\A g \in GeneratorIDs \cup StrangerIDs, s \in StartIDs, l \in AnnouncedLens :
       C18_UpdateStep(g, s, l)]_vars

\* an UpdateRange has just named a range that is not there, while the tracker
\* holds another range with an acked message
C18_Witness ==
  /\ last.op = "UpdateRange" /\ last.old = 0
  /\ Cardinality(RangeKeys) = 1
  /\ \A k \in RangeKeys : RangeAt(generators, k[1], k[2]).AckedCount = 1

\* ------------------------------------------------------------------ C19
\* C19: an Ack for generator g and start ID s changes no other generator (its
\* ranges, counters and IsAcked answers) and no range of g under another start
\* ID, and creates neither, also when the other generator's ranges carry the
\* same start IDs, lengths and msgIDs.
C19_AckStep(g, s, l, m) ==
  (last'.op = "Ack" /\ TrackerAck(g, s, l, m)) =>
    /\ DOMAIN generators' = DOMAIN generators \cup {g}
    /\ \A g2 \in (DOMAIN generators) \ {g} :
         /\ generators'[g2] = generators[g2]
         /\ \A s2 \in StartIDs, m2 \in TwoGenMsgIDs :
              IsAcked(generators', g2, s2, m2) = IsAcked(generators, g2, s2, m2)
    /\ g \in DOMAIN generators =>
         /\ DOMAIN generators'[g].ranges = DOMAIN generators[g].ranges \cup {s}
         /\ \A s2 \in (DOMAIN generators[g].ranges) \ {s} :
              generators'[g].ranges[s2] = generators[g].ranges[s2]
    /\ g \notin DOMAIN generators => DOMAIN generators'[g].ranges \subseteq {s}

C19_AckTouchesOneRange ==
  [][\A g \in GeneratorIDs \cup StrangerIDs, s \in StartIDs, m \in TwoGenMsgIDs :
       \A l \in LensFor(g, s, TwoGenLens) : C19_AckStep(g, s, l, m)]_vars

\* both generators hold ranges under both start IDs; under the first start ID
\* each has acked a msgID the other has not
C19_Witness ==
  /\ DOMAIN generators = GeneratorIDs \cup StrangerIDs
  /\ \A g \in DOMAIN generators : DOMAIN generators[g].ranges = StartIDs
  /\ \E a \in GeneratorIDs, b \in StrangerIDs :
       /\ IsAcked(generators, a, 1, 1) /\ ~IsAcked(generators, b, 1, 1)
       /\ IsAcked(generators, b, 1, 2) /\ ~IsAcked(generators, a, 1, 2)

\* ------------------------------------------------------------------- C12
\* C12: every control message put on the channel before the control client's
\* Stop is forwarded before the client's goroutine exits: once the goroutine
\* has exited, nothing is left in the channel.
C12_ClientDrainsBeforeExit ==
  pool.client = "exited" => ctrlChan = << >>

\* ------------------------------------------------------------------- C13
\* the IDs a range has handed out
IssuedIDs(r) == {r.startId + k : k \in 0 .. (r.used - 1)}

\* every request the control client has made was answered 200
AllPostsOk == \A i \in DOMAIN pool.posted : pool.posted[i].ok

\* C13: after Workers.Stop has returned, a generator whose current range was
\* only partly used and all of whose issued IDs were acked is reported with
\* unacked = 0 (no request of the control client having failed).
C13_TruncationReported ==
  (pool.pc = "stopped" /\ pool.withClient /\ AllPostsOk) =>
    \A f \in Fibers :
      LET g == pool.gens[f]
      IN (/\ g.currRange # << >>
          /\ g.currRange[1].used < g.currRange[1].len
          /\ \A id \in IssuedIDs(g.currRange[1]) :
               IsAcked(generators, g.generatorId, g.currRange[1].startId, id))
         => GeneratorReport(generators, PoolCutoff)[g.generatorId].Unacked = 0

\* ------------------------------------------------------------------- C14
\* C14: Workers.Stop keeps its order: the stats fiber has exited before the
\* worker type is asked to stop (its stopChan closed), every fiber has exited
\* before any generator's Stop is called, and every generator's Stop has
\* returned before the control client is stopped (its stopCh closed).
C14_StopOrder ==
  /\ pool.stopChan = "closed" => pool.stats = "exited"
  /\ (\E i \in DOMAIN pool.gens : pool.gens[i].stopped)
       => \A f \in Fibers : pool.fibers[f] = "exited"
  /\ pool.stopCh = "closed"
       => (pool.gens # << >> /\ \A i \in DOMAIN pool.gens : pool.gens[i].stopped)

\* a stop of a pool with a control client ran to its end after a fiber pushed
C14_Witness ==
  /\ pool.pc = "stopped"
  /\ pool.withClient
  /\ pool.stopCh = "closed"
  /\ \E f \in Fibers : pool.pushes[f] > 0

\* ------------------------------------------------------------------- C15
\* a step that changes the lifecycle state makes one of the three moves
C15_LifecycleStep ==
  Lifecycle(pool') # Lifecycle(pool)
    => <<Lifecycle(pool), Lifecycle(pool')>> \in
         {<<"Idle", "Running">>, <<"Running", "Stopping">>, <<"Stopping", "Stopped">>}

\* C15: the pool's lifecycle only moves Idle -> Running -> Stopping -> Stopped,
\* Stopped is terminal, and a further Stop neither changes anything nor fails.
C15_LifecycleAndIdempotentStop == [][C15_LifecycleStep]_vars

\* ------------------------------------------------------------------- C30
\* C30: nothing is sent on the control channel once it is closed: no send has
\* hit the closed channel, and when the client's Stop has closed it every
\* fiber has exited and every generator's Stop has returned.
C30_NoSendAfterClose ==
  /\ ~pool.sentOnClosed
  /\ pool.msgChClosed =>
       /\ \A f \in Fibers : pool.fibers[f] = "exited"
       /\ \A i \in DOMAIN pool.gens : pool.gens[i].stopped

\* the channel is closed after generators have sent both an announcement and a
\* truncation
C30_Witness ==
  /\ pool.msgChClosed
  /\ \E i \in DOMAIN pool.posted : pool.posted[i].msg.Type = "new"
  /\ \E f \in Fibers : stopSends(pool.gens[f]) # << >>

\* ------------------------------------------------------------------- C24
\* a step in which the control client makes a request: whether it fails or
\* not, the message leaves the channel, it is the one recorded as attempted,
\* and the client keeps running
C24_AttemptStep ==
  Len(pool'.posted) > Len(pool.posted) =>
    /\ ctrlChan # << >>
    /\ pool'.posted = Append(pool.posted, pool'.posted[Len(pool'.posted)])
    /\ pool'.posted[Len(pool'.posted)].msg = Head(ctrlChan)
    /\ ctrlChan' = Tail(ctrlChan)
    /\ pool'.client = "running"

\* no message is attempted twice
C24_AtMostOnce ==
  \A i, j \in DOMAIN pool.posted :
    i # j => pool.posted[i].msg # pool.posted[j].msg

\* C24: a control message whose request fails is not attempted again and the
\* client goes on with the messages behind it: every message is attempted at
\* most once and a failure does not stop the client.
C24_FailureDropsAndGoesOn == [][C24_AttemptStep]_vars /\ []C24_AtMostOnce

\* a request failed and the client has attempted a later message
C24_Witness ==
  \E i, j \in DOMAIN pool.posted : i < j /\ ~pool.posted[i].ok

C21_ForwardStep ==
  (/\ ctrlChan # << >>
   /\ Len(pool'.posted) > Len(pool.posted)
   /\ pool'.posted[Len(pool'.posted)].ok) =>
    LET msg == Head(ctrlChan)
        g == msg.GeneratorID
        s == msg.StartID
        known == HasRange(generators, g, s)
        before == RangeAt(generators, g, s)
        after == RangeAt(generators', g, s)
    IN /\ msg.Type = "new" =>
            /\ HasRange(generators', g, s)
            /\ after = IF known
                         THEN [before EXCEPT !.Timestamp = msg.Timestamp]
                         ELSE [NewMessageRange(s, msg.RangeLen)
                                 EXCEPT !.Timestamp = msg.Timestamp]
       /\ msg.Type = "update" =>
            IF known
              THEN after = [before EXCEPT !.RangeLen = msg.RangeLen]
              ELSE generators' = generators
       /\ \A g2 \in DOMAIN generators' : \A s2 \in DOMAIN generators'[g2].ranges :
            <<g2, s2>> # <<g, s>> =>
              /\ HasRange(generators, g2, s2)
              /\ generators'[g2].ranges[s2] = generators[g2].ranges[s2]
       /\ \A g2 \in DOMAIN generators :
            /\ g2 \in DOMAIN generators'
            /\ generators'[g2].totalAcked = generators[g2].totalAcked
            /\ generators'[g2].totalDuped = generators[g2].totalDuped

C22_Owed(method, body) ==
  IF method \notin {"POST", "PUT"} THEN 405
  ELSE IF body = MalformedBody THEN 400
  ELSE IF body.GeneratorID = "" \/ body.RangeLen = 0 THEN 400
  ELSE 200

C22_ServeStep ==
  sink'.op = "handleMessageRange" =>
    /\ sink'.response = C22_Owed(sink'.request[1], sink'.request[2])
    /\ sink'.response \in {400, 405} => generators' = generators

\* C22: /api/message_range answers 405 to every method but POST and PUT, 400
\* to malformed JSON, to an empty generator_id and to range_len = 0, and 200
\* otherwise; an answer of 405 or 400 leaves the tracker as it was.
C22_StatusAndNoEffectOnRefusal == [][C22_ServeStep]_vars

\* a request was refused for its range_len after the tracker had learnt of a
\* range
C22_Witness ==
  /\ sink.op = "handleMessageRange"
  /\ sink.response = 400
  /\ sink.request[1] = "PUT"
  /\ sink.request[2] # MalformedBody
  /\ sink.request[2].GeneratorID \in DOMAIN generators
  /\ sink.request[2].RangeLen = 0

\* ------------------------------------------------------------------- C29
\* the bitmap word MessageRange.Ack and MessageRange.IsAcked index for msgID
WordIndex(mr, msgID) == (msgID - mr.StartID) \div WordBits

\* C29: in every reachable state, every msgID a range contains has its bitmap
\* word among the words the range allocated, and no access has panicked.
C29_BitmapIndexInBounds ==
  /\ ~panicked
  /\ \A g \in DOMAIN generators : \A s \in DOMAIN generators[g].ranges :
       \A m \in GrowMsgIDs :
         contains(generators[g].ranges[s], m) =>
           WordIndex(generators[g].ranges[s], m) < Len(generators[g].ranges[s].bitmap)

\* ------------------------------------------------------------------- C26
\* every span generator g has emitted has reached the sink exactly n times
DeliveredTimes(g, n) ==
  \A k \in DOMAIN traffic.spans[g] : traffic.spans[g][k].n = n

\* C26: when each of the N spans a generator emitted has been delivered
\* exactly once, it is reported with total_acked = N and total_duped = 0; when
\* each has been delivered exactly twice, with total_acked = N and
\* total_duped = N.
C26_OnceAndTwice ==
  \A g \in DOMAIN traffic.spans :
    LET N == Len(traffic.spans[g])
        report == GeneratorReport(generators, PoolCutoff)
    IN /\ DeliveredTimes(g, 1) =>
            /\ g \in DOMAIN report
            /\ report[g].TotalAcked = N
            /\ report[g].TotalDuped = 0
       /\ DeliveredTimes(g, 2) =>
            /\ g \in DOMAIN report
            /\ report[g].TotalAcked = N
            /\ report[g].TotalDuped = N

\* one generator's spans, more than one, have all arrived twice while
\* another's have all arrived once
C26_Witness ==
  \E g, h \in DOMAIN traffic.spans :
    /\ Len(traffic.spans[g]) > 1 /\ DeliveredTimes(g, 2)
    /\ Len(traffic.spans[h]) > 1 /\ DeliveredTimes(h, 1)

\* ------------------------------------------------------------------- C23
\* whether the attribute list carries key with a value of the kind
Carries(attrs, key, kind) ==
  \E i \in DOMAIN attrs : attrs[i].Key = key /\ attrs[i].Value.kind = kind

\* a span with an identity: all three message-ID attributes as integers, under
\* a resource with a (non-empty) string generator ID
HasIdentity(request, i, j) ==
  /\ request[i].HasResource
  /\ \E k \in DOMAIN request[i].Resource :
       /\ request[i].Resource[k].Key = RES_ATTR_GENERATOR_ID
       /\ request[i].Resource[k].Value.kind = "string"
       /\ request[i].Resource[k].Value.str # ""
  /\ \A key \in MsgIdKeys : Carries(request[i].Spans[j], key, "int")

\* C23: for every trace export the sink calls Tracker.Ack exactly once for
\* each span with an identity and for no other span, and answers with the
\* empty success response whatever the spans carry.
C23_AcksIdentifiedSpansAndSucceeds ==
  sink.op = "Export" =>
    /\ sink.response = "empty success"
    /\ \A i \in DOMAIN sink.request : \A j \in DOMAIN sink.request[i].Spans :
         Cardinality({c \in DOMAIN sink.acked :
                        sink.acked[c].rs = i /\ sink.acked[c].span = j})
           = IF HasIdentity(sink.request, i, j) THEN 1 ELSE 0

\* ------------------------------------------------------------------ C27
\* C27: when threads race to create the state of an unknown generator or an
\* unknown range, one generatorTracker and one MessageRange come to exist and
\* stay: no step removes or replaces them, every msgID an Ack has acknowledged
\* is still marked in the range, and the range's and the generator's counters
\* equal the number of distinct msgIDs acknowledged.
C27_ObjectsStay ==
  /\ GenExists => GenExists'
  /\ RangeExists =>
       /\ RangeExists'
       /\ SetBits(LockedRange) \subseteq SetBits(LockedRange')
       /\ LockedRange'.AckedCount >= LockedRange.AckedCount

C27_NoAckLost ==
  /\ \A a \in acks : IsAcked(generators, a[1], a[2], a[3])
  /\ acks # {} =>
       /\ LockedRange.AckedCount = Cardinality(acks)
       /\ generators[ConcGen].totalAcked = Cardinality(acks)

C27_OneObjectPerRace == [][C27_ObjectsStay]_vars /\ []C27_NoAckLost

\* a thread that found no generator still waits for the tracker's write lock
\* while the other thread has created the generator and the range, acked
\* into it and entered a further call
C27_Witness ==
  \E t, u \in Threads :
    /\ t # u
    /\ locks.pc[t] \in {"ack.create.locked", "add.create.locked"}
    /\ GenExists /\ RangeExists
    /\ acks # {}
    /\ locks.pc[u] # "idle"

\* ------------------------------------------------------------------ C28
\* C28: a thread that asks for a mutex holds only mutexes of an outer level
\* (tracker before generator before range), and no set of threads inside
\* Ack, AddRange, UpdateRange, IsAcked, AckedCount or GeneratorReport wait for
\* one another.
C28_LockOrder ==
  \A t \in Threads :
    ~At(t, "idle") =>
      \A h \in locks.held[t] : LockLevel(h.lock) < LockLevel(WantedLock(locks.pc[t]))

C28_NoDeadlock ==
  \A S \in SUBSET Threads :
    S # {} => ~(\A t \in S : Blocked(t) /\ Blockers(t) \cap S # {})

C28_OrderedLocksNeverDeadlock == C28_LockOrder /\ C28_NoDeadlock

\* a GeneratorReport holds the tracker's and the generator's read locks and
\* asks for the range's, while an AddRange waits for the generator's write lock
\* behind it
C28_Witness ==
  \E t, u \in Threads :
    /\ At(t, "report.older")
    /\ Cardinality(locks.held[t]) = 2
    /\ At(u, "add.gen.locked")
    /\ Blocked(u) /\ t \in Blockers(u)

\* ------------------------------------------------------------------ C33
\* C33: in every state, also while Acks are between r.Ack and the atomic add,
\* a generator's totalAcked is at most the sum of its ranges' AckedCount and its
\* totalDuped at most the sum of their DuplicateCount.
C33_TotalsNeverAhead ==
  \A g \in DOMAIN generators :
    LET rs == generators[g].ranges
    IN /\ generators[g].totalAcked
            <= SumInt([s \in DOMAIN rs |-> rs[s].AckedCount], DOMAIN rs)
       /\ generators[g].totalDuped
            <= SumInt([s \in DOMAIN rs |-> rs[s].DuplicateCount], DOMAIN rs)

\* one Ack has marked a msgID in the range and not yet added to totalAcked,
\* while another, a duplicate, has been counted in both places
C33_Witness ==
  \E t, u \in Threads :
    /\ threads[t].pc = "totals" /\ threads[t].res.Acked
    /\ threads[u].pc = "done" /\ threads[u].ret
    /\ LET gt == generators[threads[t].generatorID]
       IN /\ gt.totalAcked < gt.ranges[ConcStartID].AckedCount
          /\ threads[u].generatorID = threads[t].generatorID

\* ------------------------------------------------------------------ C32
\* C32: when a nextId call of a generator with a channel returns the first ID
\* of a range, the announcement of that range has been appended to the
\* channel, whose buffer is never exceeded; a call that has to allocate while
\* the channel is full does not return.
C32_AllocatingStep ==
  (calls' = calls + 1 /\ idgen.withChan /\ needsRange(idgen)) =>
    /\ Len(ctrlChan) < CtrlChanCap
    /\ ctrlChan' = Append(ctrlChan,
         [Type |-> "new", GeneratorID |-> idgen.generatorId,
          StartID |-> returned'.StartID, RangeLen |-> returned'.Len,
          Timestamp |-> idgen'.currRange[1].timestamp])
    /\ returned'.ID = returned'.StartID

C32_AnnouncedBeforeFirstId ==
  [][C32_AllocatingStep]_vars /\ [](Len(ctrlChan) <= CtrlChanCap)

\* the generator's second range was announced into the last free place of the
\* channel, after the call had waited for the client to make room
C32_Witness ==
  /\ calls = ALLOC_SIZE + 1
  /\ Len(ctrlChan) = CtrlChanCap
  /\ ctrlChan[CtrlChanCap].GeneratorID = idgen.generatorId
  /\ ctrlChan[CtrlChanCap].StartID = ALLOC_SIZE + 1
  /\ ctrlChan[1].GeneratorID = OtherGenID

\* ------------------------------------------------------------------ C37
\* C37: every update Stop has put on the channel carries a RangeLen of at
\* least 1, and the control server does not answer it with 400.
C37_TruncationPassesValidation ==
  \A i \in DOMAIN ctrlChan :
    ctrlChan[i].Type = "update" =>
      /\ ctrlChan[i].RangeLen >= 1
      /\ handleMessageRange(generators, "PUT", ctrlChan[i]).status = 200

\* Stop was called right after the first ID of the second range was handed
\* out: the update in the channel carries RangeLen 1
C37_Witness ==
  /\ idgen.stopped
  /\ calls = ALLOC_SIZE + 1
  /\ \E i \in DOMAIN ctrlChan :
       /\ ctrlChan[i].Type = "update"
       /\ ctrlChan[i].StartID = ALLOC_SIZE + 1
       /\ ctrlChan[i].RangeLen = 1

\* ------------------------------------------------------------------ C31
\* C31: when the control client forwards the update of a range, it has
\* forwarded the announcement of that range before, and when it forwards the
\* announcement of a range, it has forwarded the announcements of all ranges
\* the generator allocated earlier.
\* the place in the channel of the message a step has taken from it
Forwarded == CHOOSE i \in DOMAIN ctrlChan :
               \A j \in DOMAIN ctrlChan' : ctrlChan'[j] # ctrlChan[i]

\* the start IDs of the ranges a generator allocates before the one at startID
EarlierStarts(startID) ==
  {s \in {1 + k * ALLOC_SIZE : k \in 0 .. MaxAllocs} : s < startID}

C31_ForwardOrderStep ==
  Len(ctrlChan') < Len(ctrlChan) =>
    LET msg == ctrlChan[Forwarded]
    IN /\ msg.Type = "update" => HasRange(generators, msg.GeneratorID, msg.StartID)
       /\ msg.Type = "new" =>
            /\ ~HasRange(generators, msg.GeneratorID, msg.StartID)
            /\ \A s \in EarlierStarts(msg.StartID) :
                 HasRange(generators, msg.GeneratorID, s)

C35_AccessStep ==
  \A f \in DOMAIN pool.gens :
    LET g == pool.gens[f]
        h == pool'.gens[f]
    IN /\ (h.currRange # g.currRange \/ h.nextStartId # g.nextStartId) =>
            /\ pool.fibers[f] = "running"
            /\ pool'.pushes[f] = pool.pushes[f] + 1
            /\ ~g.stopped
            /\ \A e \in DOMAIN pool.gens \ {f} : pool'.gens[e] = pool.gens[e]
       /\ (h.stopped /\ ~g.stopped) =>
            /\ pool.pc = "stopGens"
            /\ pool.fibers[f] = "exited"
            /\ h.currRange = g.currRange

C35_DistinctIDs ==
  \A e, f \in DOMAIN pool.gens :
    e # f => pool.gens[e].generatorId # pool.gens[f].generatorId

C35_OneThreadPerGenerator == [][C35_AccessStep]_vars /\ []C35_DistinctIDs

\* every fiber has pushed and exited, and Stop has read the first generator
\* and not yet the last
C35_Witness ==
  /\ pool.pc = "stopGens"
  /\ \A f \in Fibers : pool.pushes[f] >= 1 /\ pool.fibers[f] = "exited"
  /\ pool.gens[1].stopped
  /\ ~pool.gens[PoolWorkers].stopped

\* ------------------------------------------------------------------ C36
\* C36: a batch the fiber has built holds resourcesPerBatch resources of
\* spansPerResource spans each, and span j of resource i carries the ID that
\* follows the last ID handed out before the batch by (i-1) * spansPerResource
\* + j: the IDs are consecutive, ascending in emission order, and go on where
\* the previous batch ended.
C36_BatchIdsConsecutive ==
  worker.pushes > 0 =>
    /\ Len(worker.batch) = worker.resourcesPerBatch
    /\ SpansIn(worker.batch) = worker.resourcesPerBatch * worker.spansPerResource
    /\ \A i \in DOMAIN worker.batch :
         /\ Len(worker.batch[i]) = worker.spansPerResource
         /\ \A j \in DOMAIN worker.batch[i] :
              worker.batch[i][j].ID
                = worker.before + (i - 1) * worker.spansPerResource + j

\* a second batch that begins in the generator's first range and ends in its
\* second
C36_Witness ==
  /\ worker.pushes >= 2
  /\ worker.before > 0
  /\ worker.batch[1][1].StartID = 1
  /\ worker.batch[worker.resourcesPerBatch][worker.spansPerResource].StartID
       = ALLOC_SIZE + 1

\* ------------------------------------------------------------------ C38
\* C38: once an HTTP export of the fiber has been answered with a status
\* outside 2xx, the fiber begins no further push.
C38_RefusalStep ==
  (~worker.useGRPC /\ worker.refused) => worker'.pushes = worker.pushes

C38_RefusalIsFatal == [][C38_RefusalStep]_vars

\* ------------------------------------------------------------------ C40
\* C40: after k successful exports the spans-sent stat stands at
\* k * resourcesPerBatch * spansPerResource, the number of spans the exported
\* batches held, in gRPC mode and in HTTP mode.
C40_SpansSentCountsSpans ==
  /\ worker.statTracesSent
       = worker.exported * worker.resourcesPerBatch * worker.spansPerResource
  /\ worker.statTracesSent = worker.spansExported

\* ------------------------------------------------------------------ C34
\* C34: once StopAll has closed stopChan, the fiber begins no further push: it
\* completes the one it is in, if any, and exits.
C34_StopStep ==
  worker.stopChan = "closed" => worker'.pushes = worker.pushes

C34_NoPushBegunAfterStop == [][C34_StopStep]_vars

\* ------------------------------------------------------------------ C39
\* C39: a report's delta is the counter value the report read minus the value
\* recorded by the previous report, and the report records the value it read;
\* the deltas reported so far add up to the increments made between the first
\* report's read of the counter and the last report's, whether or not Incr ran
\* while a report was under way.
C39_ReportStep ==
  stat'.reports = stat.reports + 1 =>
    /\ stat'.delta = (stat.currValue - stat.lastReportValue) % UintModulus
    /\ stat'.lastReportValue = stat.currValue

C39_DeltasAddUp ==
  stat.pc = "idle" =>
    stat.deltas = (stat.added - stat.sinceLoad) % UintModulus

C39_NoIncrementLostOrDoubled == [][C39_ReportStep]_vars /\ []C39_DeltasAddUp

\* the third report has read the counter, which has wrapped around since the
\* second, and Incr has run since that read
C39_Witness ==
  /\ stat.pc = "loaded"
  /\ stat.reports = 2
  /\ stat.deltas # 0
  /\ stat.currValue < stat.lastReportValue
  /\ stat.value # stat.currValue

====
